---- MODULE Spec2Model ----
(***************************************************************************)
(* Model of the KRRA race series scorer (package krra_race_series).        *)
(*                                                                         *)
(* Strings are sequences of character codes (32 = space, 65 = 'A',         *)
(* 97 = 'a', 98 = 'b', 99 = 'c'), so that str.strip, str.lower, str.split  *)
(* and the token sort of rapidfuzz are computed, not assumed.              *)
(*                                                                         *)
(* Scores are Python floats in the source.  Here a score is an exact       *)
(* fraction <<numerator, denominator>> with a positive denominator, and    *)
(* every comparison the source makes on floats is made on the fractions.   *)
(***************************************************************************)
EXTENDS Integers, Sequences, FiniteSets, TLC

VARIABLES
    members,              \* MemberRegistry.members           (members.py:42)
    name_corrections,     \* MemberRegistry.name_corrections  (members.py:43)
    min_confidence,       \* FinisherMatcher.min_confidence   (matching.py:42)
    ambiguity_threshold,  \* FinisherMatcher.ambiguity_threshold (matching.py:43)
    race_results,         \* the list handed to match_all     (matching.py:71)
    matches,              \* the list match_all is building   (matching.py:80)
    pc,                   \* position in cli.main / in match_all
    sim_name,             \* argument `name` of one similarity evaluation
    sim_full_name,        \* a member's full_name in that evaluation
    sim_score,            \* the normalized_score it produced, or NoScore
    race_type,            \* PointsConfig.race_type             (scoring.py:69)
    place,                \* argument `place` of calculate_overall_points
    overall_points,       \* <<its return value>>, or <<>> before the call
    match_results,        \* argument of calculate_race_points  (scoring.py:159)
    race_points,          \* the list calculate_race_points returned
    all_race_points,      \* SeriesScoring.all_race_points      (scoring.py:250)
    race_names,           \* SeriesScoring.race_names           (scoring.py:251)
    race_index,           \* races the loop of cli.main has processed
    max_races,            \* argument max_races of the standings calculation
    series_totals,        \* the list calculate_series_totals returned
    category_standings,   \* the dict calculate_category_standings returned
    returned_names,       \* the list get_race_names returned to its caller
    names_shared,         \* whether that list is the accumulator's own list
    written_rows,         \* per category, the rows handed to writer.writerow
    files,                \* per category, the text of the file written
    parsed_rows,          \* per category, the rows csv.reader reads back
    ag_race_name,         \* race.name in the age-grading loop   (cli.py:171)
    ag_index,             \* matches that loop has been through  (cli.py:168)
    age_graded_results,   \* the list that loop is building      (cli.py:167)
    race_distance,        \* what infer_race_distance returned (age_grading.py:424)
    args,                 \* the arguments of cli.main and the files they name
    flagged_matches,      \* flagged_matches of cli.main          (cli.py:115)
    outputs               \* the names of the output files written so far

vars == <<members, name_corrections, min_confidence, ambiguity_threshold,
          race_results, matches, pc, sim_name, sim_full_name, sim_score,
          race_type, place, overall_points, match_results, race_points,
          all_race_points, race_names, race_index, max_races, series_totals,
          category_standings, returned_names, names_shared,
          written_rows, files, parsed_rows,
          ag_race_name, ag_index, age_graded_results, race_distance,
          args, flagged_matches, outputs>>

matcherVars == <<members, name_corrections, min_confidence, ambiguity_threshold,
                 race_results, matches, pc>>

simVars == <<sim_name, sim_full_name, sim_score>>

pointsVars == <<race_type, place, overall_points>>

\* the variables of the scoring, age-grading and export components
raceVars == <<match_results, race_points>>

seriesVars == <<all_race_points, race_names, race_index, max_races,
                series_totals, category_standings, returned_names, names_shared>>

exportVars == <<written_rows, files, parsed_rows>>

ageVars == <<ag_race_name, ag_index, age_graded_results, race_distance>>

cliVars == <<args, flagged_matches, outputs>>

auxVars == <<pointsVars, raceVars, seriesVars, exportVars, ageVars, cliVars>>

\* class RaceType: the points a race of the type awards to its winner
RACE_100 == 100
RACE_75 == 75

\* no PointsConfig has been asked for points
PointsIdle ==
    /\ race_type = RACE_75
    /\ place = 1
    /\ overall_points = <<>>

\* no PointsCalculator has been handed a race
RaceIdle ==
    /\ match_results = <<>>
    /\ race_points = <<>>

\* series = SeriesScoring(), nothing calculated from it yet
SeriesIdle ==
    /\ all_race_points = <<>>
    /\ race_names = <<>>
    /\ race_index = 0
    /\ max_races = 7
    /\ series_totals = <<>>
    /\ category_standings = [c \in {} |-> <<>>]
    /\ returned_names = <<>>
    /\ names_shared = FALSE

\* exporter = ResultsExporter(), nothing written yet
ExportIdle ==
    /\ written_rows = [c \in {} |-> <<>>]
    /\ files = [c \in {} |-> <<>>]
    /\ parsed_rows = [c \in {} |-> <<>>]

\* the age-grading loop of cli.main has not been entered
AgeIdle ==
    /\ ag_race_name = <<>>
    /\ ag_index = 0
    /\ age_graded_results = <<>>
    /\ race_distance = <<>>

\* no arguments: no roster file, no race files, no --categories, no
\* --unmatched-report, no --name-corrections
NoArgs == [members |-> <<>>, races |-> <<>>, categories |-> <<>>,
           unmatched_report |-> FALSE, name_corrections |-> <<>>]

\* cli.main has not been called
CliIdle ==
    /\ args = NoArgs
    /\ flagged_matches = <<>>
    /\ outputs = {}

\* the scoring, age-grading and export components before their first call
AuxIdle == PointsIdle /\ RaceIdle /\ SeriesIdle /\ ExportIdle /\ AgeIdle /\ CliIdle

-----------------------------------------------------------------------------
(* Bounds of the model.                                                    *)

\* Largest number of rows in a roster file.
MaxMembers == 2

\* Longest string the similarity function is evaluated on exhaustively.
MaxStrLen == 3

-----------------------------------------------------------------------------
(* Exact fractions standing for the floats of the source.                  *)

Zero == <<0, 1>>
One == <<1, 1>>

RatEq(a, b) == a[1] * b[2] = b[1] * a[2]
RatLt(a, b) == a[1] * b[2] < b[1] * a[2]
RatLe(a, b) == a[1] * b[2] <= b[1] * a[2]
RatSub(a, b) == <<a[1] * b[2] - b[1] * a[2], a[2] * b[2]>>

-----------------------------------------------------------------------------
(* Python str operations used by the matcher.                              *)

IsSpace(c) == c = 32

RECURSIVE LStrip(_)
LStrip(s) ==
    IF s = <<>> THEN <<>>
    ELSE IF IsSpace(Head(s)) THEN LStrip(Tail(s)) ELSE s

RECURSIVE RStrip(_)
RStrip(s) ==
    IF s = <<>> THEN <<>>
    ELSE IF IsSpace(s[Len(s)]) THEN RStrip(SubSeq(s, 1, Len(s) - 1)) ELSE s

\* str.strip()
Strip(s) == RStrip(LStrip(s))

\* str.lower(), on the ASCII letters
Lower(s) == [i \in 1..Len(s) |-> IF s[i] \in 65..90 THEN s[i] + 32 ELSE s[i]]

\* a + b for strings
Concat(a, b) == a \o b

\* str.split(): the maximal runs of non-space characters, in order
RECURSIVE SplitFrom(_, _, _)
SplitFrom(s, cur, acc) ==
    IF s = <<>> THEN (IF cur = <<>> THEN acc ELSE Append(acc, cur))
    ELSE IF IsSpace(Head(s))
         THEN SplitFrom(Tail(s), <<>>, IF cur = <<>> THEN acc ELSE Append(acc, cur))
         ELSE SplitFrom(Tail(s), Append(cur, Head(s)), acc)

Split(s) == SplitFrom(s, <<>>, <<>>)

\* " ".join(tokens)
RECURSIVE Join(_)
Join(tokens) ==
    IF tokens = <<>> THEN <<>>
    ELSE IF Len(tokens) = 1 THEN tokens[1]
    ELSE tokens[1] \o <<32>> \o Join(Tail(tokens))

\* a < b for strings: lexicographic on character codes
RECURSIVE StrLess(_, _)
StrLess(a, b) ==
    IF b = <<>> THEN FALSE
    ELSE IF a = <<>> THEN TRUE
    ELSE IF Head(a) < Head(b) THEN TRUE
    ELSE IF Head(a) > Head(b) THEN FALSE
    ELSE StrLess(Tail(a), Tail(b))

\* insertion of t into an ascending list, after the tokens equal to it
RECURSIVE InsertToken(_, _)
InsertToken(t, sorted) ==
    IF sorted = <<>> THEN <<t>>
    ELSE IF StrLess(t, Head(sorted)) THEN <<t>> \o sorted
    ELSE <<Head(sorted)>> \o InsertToken(t, Tail(sorted))

RECURSIVE SortedFrom(_, _)
SortedFrom(tokens, acc) ==
    IF tokens = <<>> THEN acc
    ELSE SortedFrom(Tail(tokens), InsertToken(Head(tokens), acc))

\* sorted(tokens)
SortedTokens(tokens) == SortedFrom(tokens, <<>>)

-----------------------------------------------------------------------------
(* rapidfuzz.fuzz.token_sort_ratio, the similarity the matcher calls.       *)
(* The library is a dependency of the package; what is modelled is its     *)
(* documented algorithm: split both strings on whitespace, sort the        *)
(* tokens, join them with one space, and return 100 times the normalized   *)
(* Indel similarity 1 - (len1 + len2 - 2 * LCS) / (len1 + len2), which is  *)
(* 100 when both strings are empty.                                        *)

Max(x, y) == IF x >= y THEN x ELSE y

\* length of a longest common subsequence of a and b
RECURSIVE LCSLen(_, _)
LCSLen(a, b) ==
    IF a = <<>> \/ b = <<>> THEN 0
    ELSE IF Head(a) = Head(b) THEN 1 + LCSLen(Tail(a), Tail(b))
    ELSE Max(LCSLen(Tail(a), b), LCSLen(a, Tail(b)))

\* fuzz.ratio(a, b): a percentage, as an exact fraction
ratio(a, b) ==
    LET maximum == Len(a) + Len(b)
        dist == maximum - 2 * LCSLen(a, b)
    IN IF maximum = 0 THEN <<100, 1>>
       ELSE <<100 * (maximum - dist), maximum>>

\* TokenSort without the sort: the tokens joined in their given order
TokenSortUnsorted(s) == Join(Split(s))

\* the token-sorted form of s
TokenSort(s) == Join(SortedTokens(Split(s)))

\* fuzz.token_sort_ratio(s1, s2)
token_sort_ratio(s1, s2) == ratio(TokenSort(s1), TokenSort(s2))

-----------------------------------------------------------------------------
(* members.py                                                              *)

\* Member.full_name
full_name(m) == Concat(Concat(m.first_name, <<32>>), m.last_name)

\* the value None where a Member is expected
NoMember == [member_id |-> 0, first_name |-> <<>>, last_name |-> <<>>]

\* MatchResultDict(member=..., confidence=..., is_ambiguous=...)
MatchResultDict(m, c, a) == [member |-> m, confidence |-> c, is_ambiguous |-> a]

\* name_normalized = name.strip().lower()
NameNormalized(name) == Lower(Strip(name))

\* NormalizedScore comparing against the member's name in its original case
NormalizedScoreCaseSensitive(name_normalized, member_full_name) ==
    LET score == token_sort_ratio(name_normalized, member_full_name)
    IN <<score[1], 100 * score[2]>>

\* score = fuzz.token_sort_ratio(name_normalized, member.full_name.lower());
\* normalized_score = score / 100.0
NormalizedScore(name_normalized, member_full_name) ==
    LET score == token_sort_ratio(name_normalized, Lower(member_full_name))
    IN <<score[1], 100 * score[2]>>

\* the corrections loop: the first member whose lower-cased full name equals
\* the lower-cased corrected name, or NoMember
RECURSIVE FirstNamed(_, _)
FirstNamed(ms, corrected_name) ==
    IF ms = <<>> THEN NoMember
    ELSE IF Lower(full_name(Head(ms))) = Lower(corrected_name) THEN Head(ms)
    ELSE FirstNamed(Tail(ms), corrected_name)

CorrectedMember(ms, corrections, name_normalized) ==
    IF name_normalized \in DOMAIN corrections
    THEN FirstNamed(ms, corrections[name_normalized])
    ELSE NoMember

\* the scoring loop's early exit: the first member scoring exactly 1.0
RECURSIVE FirstPerfect(_, _)
FirstPerfect(ms, name_normalized) ==
    IF ms = <<>> THEN NoMember
    ELSE IF RatEq(NormalizedScore(name_normalized, full_name(Head(ms))), One) THEN Head(ms)
    ELSE FirstPerfect(Tail(ms), name_normalized)

\* the list `scores` when the loop runs to its end
ScoreList(ms, name_normalized) ==
    [i \in 1..Len(ms) |->
        [member |-> ms[i], score |-> NormalizedScore(name_normalized, full_name(ms[i]))]]

\* the insertion of a sort that puts a later candidate before the earlier
\* ones of the same score
RECURSIVE InsertScoreBeforeEqual(_, _)
InsertScoreBeforeEqual(x, sorted) ==
    IF sorted = <<>> THEN <<x>>
    ELSE IF RatLe(Head(sorted).score, x.score) THEN <<x>> \o sorted
    ELSE <<Head(sorted)>> \o InsertScoreBeforeEqual(x, Tail(sorted))

\* scores.sort(key=lambda x: x[1], reverse=True): stable, descending
RECURSIVE InsertScore(_, _)
InsertScore(x, sorted) ==
    IF sorted = <<>> THEN <<x>>
    ELSE IF RatLt(Head(sorted).score, x.score) THEN <<x>> \o sorted
    ELSE <<Head(sorted)>> \o InsertScore(x, Tail(sorted))

RECURSIVE SortScoresFrom(_, _)
SortScoresFrom(scores, acc) ==
    IF scores = <<>> THEN acc
    ELSE SortScoresFrom(Tail(scores), InsertScore(Head(scores), acc))

SortScores(scores) == SortScoresFrom(scores, <<>>)

\* FuzzyMatch accepting the best candidate whatever its score
FuzzyMatchNoThreshold(ms, name_normalized, minc, amb) ==
    LET perfect == FirstPerfect(ms, name_normalized)
        scores == SortScores(ScoreList(ms, name_normalized))
    IN IF perfect # NoMember
       THEN MatchResultDict(perfect, One, FALSE)
       ELSE IF scores = <<>>
       THEN MatchResultDict(NoMember, Zero, FALSE)
       ELSE LET is_ambiguous ==
                    /\ Len(scores) > 1
                    /\ RatLe(RatSub(scores[1].score, scores[2].score), amb)
            IN MatchResultDict(scores[1].member, scores[1].score, is_ambiguous)

\* FuzzyMatch rejecting a best score equal to min_confidence (<= for <)
FuzzyMatchRejectEqual(ms, name_normalized, minc, amb) ==
    LET perfect == FirstPerfect(ms, name_normalized)
        scores == SortScores(ScoreList(ms, name_normalized))
    IN IF perfect # NoMember
       THEN MatchResultDict(perfect, One, FALSE)
       ELSE IF scores = <<>>
       THEN MatchResultDict(NoMember, Zero, FALSE)
       ELSE IF RatLe(scores[1].score, minc)
       THEN MatchResultDict(NoMember, scores[1].score, FALSE)
       ELSE LET is_ambiguous ==
                    /\ Len(scores) > 1
                    /\ RatLe(RatSub(scores[1].score, scores[2].score), amb)
            IN MatchResultDict(scores[1].member, scores[1].score, is_ambiguous)

\* FuzzyMatch flagging only a gap strictly below the threshold (< for <=)
FuzzyMatchStrictGap(ms, name_normalized, minc, amb) ==
    LET perfect == FirstPerfect(ms, name_normalized)
        scores == SortScores(ScoreList(ms, name_normalized))
    IN IF perfect # NoMember
       THEN MatchResultDict(perfect, One, FALSE)
       ELSE IF scores = <<>>
       THEN MatchResultDict(NoMember, Zero, FALSE)
       ELSE IF RatLt(scores[1].score, minc)
       THEN MatchResultDict(NoMember, scores[1].score, FALSE)
       ELSE LET is_ambiguous ==
                    /\ Len(scores) > 1
                    /\ RatLt(RatSub(scores[1].score, scores[2].score), amb)
            IN MatchResultDict(scores[1].member, scores[1].score, is_ambiguous)

\* FuzzyMatch reporting confidence 0.0 for a rejected best candidate
FuzzyMatchRejectZero(ms, name_normalized, minc, amb) ==
    LET perfect == FirstPerfect(ms, name_normalized)
        scores == SortScores(ScoreList(ms, name_normalized))
    IN IF perfect # NoMember
       THEN MatchResultDict(perfect, One, FALSE)
       ELSE IF scores = <<>>
       THEN MatchResultDict(NoMember, Zero, FALSE)
       ELSE IF RatLt(scores[1].score, minc)
       THEN MatchResultDict(NoMember, Zero, FALSE)
       ELSE LET is_ambiguous ==
                    /\ Len(scores) > 1
                    /\ RatLe(RatSub(scores[1].score, scores[2].score), amb)
            IN MatchResultDict(scores[1].member, scores[1].score, is_ambiguous)

\* the part of find_by_name after the corrections check (lines 136-170)
FuzzyMatch(ms, name_normalized, minc, amb) ==
    LET perfect == FirstPerfect(ms, name_normalized)
        scores == SortScores(ScoreList(ms, name_normalized))
    IN IF perfect # NoMember
       THEN MatchResultDict(perfect, One, FALSE)
       ELSE IF scores = <<>>
       THEN MatchResultDict(NoMember, Zero, FALSE)
       ELSE LET best_member == scores[1].member
                best_score == scores[1].score
            IN IF RatLt(best_score, minc)
               THEN MatchResultDict(NoMember, best_score, FALSE)
               ELSE LET is_ambiguous ==
                            /\ Len(scores) > 1
                            /\ RatLe(RatSub(best_score, scores[2].score), amb)
                    IN MatchResultDict(best_member, best_score, is_ambiguous)

\* find_by_name scoring before it looks at the corrections: a correction is
\* used only when fuzzy matching finds nobody
find_by_name_fuzzy_first(ms, corrections, name, minc, amb) ==
    LET name_normalized == NameNormalized(name)
        corrected == CorrectedMember(ms, corrections, name_normalized)
        fuzzy == FuzzyMatch(ms, name_normalized, minc, amb)
    IN IF ms = <<>>
       THEN MatchResultDict(NoMember, Zero, FALSE)
       ELSE IF fuzzy.member # NoMember
       THEN fuzzy
       ELSE IF corrected # NoMember
       THEN MatchResultDict(corrected, One, FALSE)
       ELSE fuzzy

\* find_by_name giving up when a correction names nobody in the registry
find_by_name_hard_fail(ms, corrections, name, minc, amb) ==
    LET name_normalized == NameNormalized(name)
        corrected == CorrectedMember(ms, corrections, name_normalized)
    IN IF ms = <<>>
       THEN MatchResultDict(NoMember, Zero, FALSE)
       ELSE IF corrected # NoMember
       THEN MatchResultDict(corrected, One, FALSE)
       ELSE IF name_normalized \in DOMAIN corrections
       THEN MatchResultDict(NoMember, Zero, FALSE)
       ELSE FuzzyMatch(ms, name_normalized, minc, amb)

\* MemberRegistry.find_by_name(name, min_confidence, ambiguity_threshold)
find_by_name(ms, corrections, name, minc, amb) ==
    LET name_normalized == NameNormalized(name)
        corrected == CorrectedMember(ms, corrections, name_normalized)
    IN IF ms = <<>>
       THEN MatchResultDict(NoMember, Zero, FALSE)
       ELSE IF corrected # NoMember
       THEN MatchResultDict(corrected, One, FALSE)
       ELSE FuzzyMatch(ms, name_normalized, minc, amb)

\* MemberRegistry.load_from_csv: one Member per row, names stripped.  Row i of
\* a roster file carries the member_id i.
LoadedMembers(rows) ==
    [i \in 1..Len(rows) |->
        [member_id |-> i,
         first_name |-> Strip(rows[i][1]),
         last_name |-> Strip(rows[i][2])]]

\* MemberRegistry.load_name_corrections: the dict built row by row; a row with
\* an empty race_name or member_name is skipped, a later row for the same key
\* replaces the earlier one
RECURSIVE LoadedCorrections(_, _)
LoadedCorrections(rows, acc) ==
    IF rows = <<>> THEN acc
    ELSE LET race_name == Strip(Head(rows)[1])
             member_name == Strip(Head(rows)[2])
             key == Lower(race_name)
         IN IF race_name # <<>> /\ member_name # <<>>
            THEN LoadedCorrections(Tail(rows),
                     [k \in DOMAIN acc \cup {key} |->
                         IF k = key THEN member_name ELSE acc[k]])
            ELSE LoadedCorrections(Tail(rows), acc)

\* the empty dict
EmptyDict == [k \in {} |-> <<>>]

-----------------------------------------------------------------------------
(* matching.py                                                             *)

\* match_finisher leaving MatchResult.confidence at its default 1.0
\* (matching.py:16) when no member was found
match_finisher_default_confidence(ms, corrections, minc, amb, race_result) ==
    LET result == find_by_name(ms, corrections, race_result.name, minc, amb)
    IN [race_result |-> race_result,
        member |-> result.member,
        matched |-> result.member # NoMember,
        confidence |-> IF result.member = NoMember THEN One ELSE result.confidence,
        is_ambiguous |-> result.is_ambiguous]

\* FinisherMatcher.match_finisher(race_result), for a matcher over the
\* registry (ms, corrections) with thresholds minc and amb
match_finisher(ms, corrections, minc, amb, race_result) ==
    LET result == find_by_name(ms, corrections, race_result.name, minc, amb)
    IN [race_result |-> race_result,
        member |-> result.member,
        matched |-> result.member # NoMember,
        confidence |-> result.confidence,
        is_ambiguous |-> result.is_ambiguous]

-----------------------------------------------------------------------------
(* Inputs.                                                                 *)

\* (first_name, last_name) columns of roster rows:
\* ("a","b") ("b","a") ("A","B") ("a","c") ("ab","c") (" a","b ")
RosterRows ==
    { << <<97>>, <<98>> >>, << <<98>>, <<97>> >>, << <<65>>, <<66>> >>,
      << <<97>>, <<99>> >>, << <<97, 98>>, <<99>> >>,
      << <<32, 97>>, <<98, 32>> >> }

RosterFiles == UNION {[1..n -> RosterRows] : n \in 0..MaxMembers}

\* (race_name, member_name) rows of correction files
CorrAB == << <<32, 65, 32, 66, 32>>, <<97, 32, 99, 32>> >>  \* " A B " -> "a c "
CorrAb == << <<97, 98>>, <<66, 32, 65>> >>                  \* "ab" -> "B A"
CorrA == << <<97>>, <<99, 32, 97>> >>                       \* "a" -> "c a"
CorrEmpty == << <<32>>, <<97, 32, 98>> >>                   \* " " -> "a b"
CorrABtoBA == << <<97, 32, 98>>, <<98, 32, 97>> >>          \* "a b" -> "b a"

CorrectionFiles ==
    { <<>>, <<CorrAB>>, <<CorrAb>>, <<CorrA>>, <<CorrEmpty, CorrAB>>,
      <<CorrAB, CorrABtoBA>> }

\* thresholds a matcher is constructed with; 0.70 and 0.05 are the defaults
MinConfidences == { <<1, 2>>, <<7, 10>>, <<1, 1>> }
AmbiguityThresholds == { <<1, 20>>, <<1, 10>> }

\* finisher names: "a b" "b a" "A B" " a  b " "ab" "a" "a bc" "a c" ""
NameAB == <<97, 32, 98>>
NameBA == <<98, 32, 97>>
NameUpper == <<65, 32, 66>>
NameSpaced == <<32, 97, 32, 32, 98, 32>>
NameJoined == <<97, 98>>
NameA == <<97>>
NameABC == <<97, 32, 98, 99>>
NameAC == <<97, 32, 99>>
NameNone == <<>>

FinisherNames ==
    { NameAB, NameBA, NameUpper, NameSpaced, NameJoined, NameA, NameABC,
      NameAC, NameNone }

\* the name columns of race files: every one-finisher race, and some longer
RaceFiles ==
    { <<>> } \cup { <<n>> : n \in FinisherNames }
    \cup { <<NameAB, NameJoined>>, <<NameJoined, NameAB>>, <<NameAB, NameBA>>,
           <<NameA, NameA>>, <<NameABC, NameUpper, NameA>> }

\* RaceResultsLoader.load_csv: row i is the finisher in place i
LoadedResults(names) == [i \in 1..Len(names) |-> [place |-> i, name |-> names[i]]]

\* strings of length at most n over space, 'A', 'a', 'b'
Strings(n) == UNION {[1..k -> {32, 65, 97, 98}] : k \in 0..n}

NoScore == <<0, 0>>

-----------------------------------------------------------------------------
(* The run of cli.main up to the matching of each race.                    *)

\* a registry and a matcher nothing has been loaded into
MatcherIdle ==
    /\ members = <<>>
    /\ name_corrections = EmptyDict
    /\ min_confidence = <<7, 10>>
    /\ ambiguity_threshold = <<1, 20>>
    /\ race_results = <<>>
    /\ matches = <<>>

\* no similarity is being evaluated
SimIdle ==
    /\ sim_name = <<>>
    /\ sim_full_name = <<>>
    /\ sim_score = NoScore

Init ==
    /\ members = <<>>
    /\ name_corrections = EmptyDict
    /\ min_confidence = <<7, 10>>
    /\ ambiguity_threshold = <<1, 20>>
    /\ race_results = <<>>
    /\ matches = <<>>
    /\ pc = "start"
    /\ sim_name = <<>>
    /\ sim_full_name = <<>>
    /\ sim_score = NoScore
    /\ AuxIdle

\* member_registry.load_from_csv(args.members)
load_from_csv ==
    /\ pc = "start"
    /\ \E rows \in RosterFiles : members' = LoadedMembers(rows)
    /\ pc' = "members"
    /\ UNCHANGED <<name_corrections, min_confidence, ambiguity_threshold,
                   race_results, matches, simVars, auxVars>>

\* member_registry.load_name_corrections(args.name_corrections)
load_name_corrections ==
    /\ pc = "members"
    /\ \E rows \in CorrectionFiles :
           name_corrections' = LoadedCorrections(rows, EmptyDict)
    /\ pc' = "corrections"
    /\ UNCHANGED <<members, min_confidence, ambiguity_threshold,
                   race_results, matches, simVars, auxVars>>

\* matcher = FinisherMatcher(member_registry, min_confidence, ambiguity_threshold)
FinisherMatcher ==
    /\ pc \in {"members", "corrections"}
    /\ \E minc \in MinConfidences, amb \in AmbiguityThresholds :
           /\ min_confidence' = minc
           /\ ambiguity_threshold' = amb
    /\ pc' = "ready"
    /\ UNCHANGED <<members, name_corrections, race_results, matches, simVars, auxVars>>

\* matcher.match_all(race.results): entry
match_all ==
    /\ pc = "ready"
    /\ \E names \in RaceFiles : race_results' = LoadedResults(names)
    /\ matches' = <<>>
    /\ pc' = "matching"
    /\ UNCHANGED <<members, name_corrections, min_confidence,
                   ambiguity_threshold, simVars, auxVars>>

\* the members list without the member with the given id
WithoutMember(ms, id) == SelectSeq(ms, LAMBDA m : m.member_id # id)

\* MatchAllNext taking a matched member out of the registry, so that no
\* later finisher can resolve to it
MatchAllNextConsuming ==
    /\ pc = "matching"
    /\ Len(matches) < Len(race_results)
    /\ LET r == match_finisher(members, name_corrections, min_confidence,
                                    ambiguity_threshold,
                                    race_results[Len(matches) + 1])
       IN /\ matches' = Append(matches, r)
          /\ members' = WithoutMember(members, r.member.member_id)
    /\ UNCHANGED <<name_corrections, min_confidence,
                   ambiguity_threshold, race_results, pc, simVars, auxVars>>

\* one iteration of the comprehension: self.match_finisher(result)
MatchAllNext ==
    /\ pc = "matching"
    /\ Len(matches) < Len(race_results)
    /\ matches' = Append(matches,
           match_finisher(members, name_corrections, min_confidence,
                               ambiguity_threshold,
                               race_results[Len(matches) + 1]))
    /\ UNCHANGED <<members, name_corrections, min_confidence,
                   ambiguity_threshold, race_results, pc, simVars, auxVars>>

\* matcher.match_all(race.results): the list is returned
MatchAllReturn ==
    /\ pc = "matching"
    /\ Len(matches) = Len(race_results)
    /\ pc' = "ready"
    /\ UNCHANGED <<members, name_corrections, min_confidence,
                   ambiguity_threshold, race_results, matches, simVars, auxVars>>

Next ==
    \/ load_from_csv
    \/ load_name_corrections
    \/ FinisherMatcher
    \/ match_all
    \/ MatchAllNext
    \/ MatchAllReturn

Spec == Init /\ [][Next]_vars

-----------------------------------------------------------------------------
(* The similarity of find_by_name as a function of its two strings.        *)

InitScore ==
    /\ members = <<>>
    /\ name_corrections = EmptyDict
    /\ min_confidence = <<7, 10>>
    /\ ambiguity_threshold = <<1, 20>>
    /\ race_results = <<>>
    /\ matches = <<>>
    /\ pc = "score"
    /\ sim_name \in Strings(MaxStrLen)
    /\ sim_full_name \in Strings(MaxStrLen)
    /\ sim_score = NoScore
    /\ AuxIdle

\* lines 121 and 140-142 of find_by_name for one member
Similarity(name, member_full_name) == NormalizedScore(NameNormalized(name), member_full_name)

ComputeSimilarity ==
    /\ pc = "score"
    /\ sim_score = NoScore
    /\ sim_score' = Similarity(sim_name, sim_full_name)
    /\ UNCHANGED <<matcherVars, sim_name, sim_full_name, auxVars>>

NextScore == ComputeSimilarity

SpecScore == InitScore /\ [][NextScore]_vars

-----------------------------------------------------------------------------
(* Properties of the name matcher.                                         *)

\* the normalized score of finisher name `name` against member number k
ScoreOf(name, k) == NormalizedScore(NameNormalized(name), full_name(members[k]))

\* the scores of all members for `name`, in registry order
RECURSIVE ScoresFrom(_, _)
ScoresFrom(name_normalized, ms) ==
    IF ms = <<>> THEN <<>>
    ELSE <<NormalizedScore(name_normalized, full_name(Head(ms)))>>
             \o ScoresFrom(name_normalized, Tail(ms))

AllScores(name) == ScoresFrom(NameNormalized(name), members)

\* the largest fraction of a non-empty list
RECURSIVE MaxRat(_)
MaxRat(scores) ==
    IF Len(scores) = 1 THEN scores[1]
    ELSE LET m == MaxRat(Tail(scores))
         IN IF RatLt(scores[1], m) THEN m ELSE scores[1]

\* the list without one occurrence of the value x
RECURSIVE DropOne(_, _)
DropOne(scores, x) ==
    IF scores = <<>> THEN <<>>
    ELSE IF RatEq(scores[1], x) THEN Tail(scores)
    ELSE <<scores[1]>> \o DropOne(Tail(scores), x)

\* the highest score over all members
BestScore(name) == MaxRat(AllScores(name))

\* the highest score over the members other than one best member
SecondScore(name) ==
    LET scores == AllScores(name)
    IN MaxRat(DropOne(scores, MaxRat(scores)))

\* the normalized name is a key of the correction map
HasCorrection(name) == NameNormalized(name) \in DOMAIN name_corrections

\* member number k carries the canonical name the correction maps `name` to
IsCorrectionTarget(name, k) ==
    Lower(full_name(members[k])) = Lower(name_corrections[NameNormalized(name)])

\* the correction for `name` names a member of the registry
CorrectionApplies(name) ==
    /\ HasCorrection(name)
    /\ \E k \in DOMAIN members : IsCorrectionTarget(name, k)

\* C1: every outcome with matched = true carries a member and a confidence of
\* at least min_confidence; every outcome with matched = false carries no member.
MatchedInvariant ==
    \A i \in DOMAIN matches :
        /\ matches[i].matched =>
               /\ matches[i].member # NoMember
               /\ RatLe(min_confidence, matches[i].confidence)
        /\ ~matches[i].matched => matches[i].member = NoMember

\* C1 witness: one race with an outcome accepted below 1.0, an outcome resolved
\* by a correction and an unmatched outcome
MatchedInvariantWitness ==
    /\ Len(matches) = 3
    /\ matches[1].matched /\ RatLt(matches[1].confidence, One)
    /\ matches[2].matched /\ CorrectionApplies(matches[2].race_result.name)
    /\ ~matches[3].matched /\ RatLt(Zero, matches[3].confidence)

AmbiguousIffGapWithinThreshold ==
    \A i \in DOMAIN matches :
        LET name == matches[i].race_result.name
            best == BestScore(name)
            second == SecondScore(name) IN
        ( /\ matches[i].matched
          /\ Len(members) >= 2
          /\ RatLe(min_confidence, best) )
        => ( matches[i].is_ambiguous
             <=> RatLe(RatSub(best, second),
                       ambiguity_threshold) )

\* C3 amended: for every match accepted by fuzzy selection (no correction
\* applied, best score b below 1.0) over two or more members, is_ambiguous
\* holds exactly when b - s2 <= ambiguity_threshold; a match made by a
\* correction or with b = 1.0 is never ambiguous.
FuzzyAmbiguousIffGapWithinThreshold ==
    \A i \in DOMAIN matches :
        LET name == matches[i].race_result.name
            best == BestScore(name)
            second == SecondScore(name) IN
        /\ ( /\ matches[i].matched
             /\ Len(members) >= 2
             /\ ~CorrectionApplies(name)
             /\ RatLt(best, One) )
           => ( matches[i].is_ambiguous
                <=> RatLe(RatSub(best, second),
                          ambiguity_threshold) )
        /\ ( /\ matches[i].matched
             /\ (CorrectionApplies(name) \/ RatEq(best, One)) )
           => ~matches[i].is_ambiguous

\* C3 witness: a fuzzy match whose gap is positive and exactly the threshold,
\* flagged ambiguous
AmbiguityBoundaryWitness ==
    \E i \in DOMAIN matches :
        LET name == matches[i].race_result.name
            best == BestScore(name)
            second == SecondScore(name) IN
        /\ Len(members) >= 2
        /\ matches[i].matched
        /\ matches[i].is_ambiguous
        /\ ~CorrectionApplies(name)
        /\ RatLt(best, One)
        /\ RatLt(second, best)
        /\ RatEq(RatSub(best, second), ambiguity_threshold)

\* C4: over a non-empty registry and with no applicable correction, a member is
\* returned exactly when the highest score is at least min_confidence.
AcceptIffAtLeastMinConfidence ==
    \A i \in DOMAIN matches :
        LET name == matches[i].race_result.name
            best == BestScore(name)
            second == SecondScore(name) IN
        (members # <<>> /\ ~CorrectionApplies(name))
        => ( matches[i].member # NoMember
             <=> RatLe(min_confidence, best) )

\* C4 witness: a best score below 1.0 and equal to min_confidence is accepted
ThresholdBoundaryWitness ==
    \E i \in DOMAIN matches :
        LET name == matches[i].race_result.name
            best == BestScore(name)
            second == SecondScore(name) IN
        /\ members # <<>>
        /\ ~HasCorrection(name)
        /\ RatEq(best, min_confidence)
        /\ RatLt(best, One)
        /\ matches[i].matched

\* C5: when the normalized name has a correction whose canonical name is the
\* lower-cased full name of some member, the first such member is returned with
\* confidence 1.0 and is_ambiguous = false, whatever the thresholds and the
\* fuzzy scores are.
CorrectionPrecedence ==
    \A i \in DOMAIN matches :
        LET name == matches[i].race_result.name
            best == BestScore(name)
            second == SecondScore(name) IN
        CorrectionApplies(name) =>
            /\ matches[i].matched
            /\ matches[i].member \in {members[k] : k \in DOMAIN members}
            /\ IsCorrectionTarget(name, matches[i].member.member_id)
            /\ \A j \in 1..(matches[i].member.member_id - 1) :
                   ~IsCorrectionTarget(name, j)
            /\ matches[i].confidence = One
            /\ ~matches[i].is_ambiguous

\* C5 witness: the correction wins over another member that scores 1.0, with
\* min_confidence = 1.0
CorrectionPrecedenceWitness ==
    \E i \in DOMAIN matches : \E k \in DOMAIN members :
        LET name == matches[i].race_result.name
            best == BestScore(name)
            second == SecondScore(name) IN
        /\ CorrectionApplies(name)
        /\ ~IsCorrectionTarget(name, k)
        /\ RatEq(ScoreOf(name, k), One)
        /\ RatLt(ScoreOf(name, matches[i].member.member_id), One)
        /\ matches[i].member # members[k]
        /\ min_confidence = One

\* C6: when the normalized name has a correction that names no member, the
\* outcome is the one the same name gets with an empty correction map.
CorrectionFallThrough ==
    \A i \in DOMAIN matches :
        LET name == matches[i].race_result.name
            best == BestScore(name)
            second == SecondScore(name) IN
        (HasCorrection(name) /\ ~CorrectionApplies(name)) =>
            matches[i] = match_finisher(members, EmptyDict, min_confidence,
                                             ambiguity_threshold,
                                             matches[i].race_result)

\* C6 witness: a name with a dangling correction is matched by its fuzzy score
CorrectionFallThroughWitness ==
    \E i \in DOMAIN matches :
        LET name == matches[i].race_result.name
            best == BestScore(name)
            second == SecondScore(name) IN
        /\ members # <<>>
        /\ HasCorrection(name)
        /\ ~CorrectionApplies(name)
        /\ matches[i].matched
        /\ RatLt(matches[i].confidence, One)

\* C7: with no members in the registry every outcome is unmatched, without a
\* member, with confidence 0.0 and not ambiguous, whatever the name and the
\* correction map.
EmptyRegistryNoMatch ==
    members = <<>> =>
        \A i \in DOMAIN matches :
            /\ ~matches[i].matched
            /\ matches[i].member = NoMember
            /\ matches[i].confidence = Zero
            /\ ~matches[i].is_ambiguous

\* C7 witness: a finisher whose name has a correction, matched against an
\* empty registry
EmptyRegistryWitness ==
    /\ members = <<>>
    /\ \E i \in DOMAIN matches : HasCorrection(matches[i].race_result.name)

\* C8 as stated: over a non-empty registry, when every score is below
\* min_confidence the outcome is unmatched, carries the highest score as its
\* confidence and is not ambiguous.
BelowThresholdUnmatched ==
    \A i \in DOMAIN matches :
        LET name == matches[i].race_result.name
            best == BestScore(name)
            second == SecondScore(name) IN
        (members # <<>> /\ RatLt(best, min_confidence)) =>
            /\ ~matches[i].matched
            /\ matches[i].member = NoMember
            /\ RatEq(matches[i].confidence, best)
            /\ ~matches[i].is_ambiguous

\* C8 amended: the same, for a name to which no correction applies.
BelowThresholdUnmatchedNoCorrection ==
    \A i \in DOMAIN matches :
        LET name == matches[i].race_result.name
            best == BestScore(name)
            second == SecondScore(name) IN
        ( /\ members # <<>>
          /\ ~CorrectionApplies(name)
          /\ RatLt(best, min_confidence) ) =>
            /\ ~matches[i].matched
            /\ matches[i].member = NoMember
            /\ RatEq(matches[i].confidence, best)
            /\ ~matches[i].is_ambiguous

\* C8 witness: a rejected name whose two best scores are positive and within
\* the ambiguity threshold
BelowThresholdWitness ==
    \E i \in DOMAIN matches :
        LET name == matches[i].race_result.name
            best == BestScore(name)
            second == SecondScore(name) IN
        /\ Len(members) >= 2
        /\ ~CorrectionApplies(name)
        /\ RatLt(best, min_confidence)
        /\ RatLt(Zero, best)
        /\ RatLe(RatSub(best, second), ambiguity_threshold)
        /\ ~matches[i].matched

\* every reordering of a token list
Perms(tokens) ==
    LET n == Len(tokens)
    IN { [i \in 1..n |-> tokens[f[i]]] :
           f \in {g \in [1..n -> 1..n] : \A a, b \in 1..n : g[a] = g[b] => a = b} }

\* C9: the score is the same for every reordering of the tokens of the finisher
\* name and, independently, of the member's full name; a finisher name whose
\* tokens are a reordering of the member's tokens (letter case aside) scores 1.0.
SimilarityPermutationInvariant ==
    sim_score # NoScore =>
        /\ \A p \in Perms(Split(sim_name)) : \A q \in Perms(Split(sim_full_name)) :
               RatEq(Similarity(Join(p), Join(q)), sim_score)
        /\ Split(Lower(sim_full_name)) \in Perms(Split(Lower(sim_name)))
               => RatEq(sim_score, One)

\* C9 witness: two different tokens in reversed order score 1.0
SimilarityPermutationWitness ==
    /\ sim_score # NoScore
    /\ Len(Split(sim_name)) = 2
    /\ Split(Lower(sim_name)) # Split(Lower(sim_full_name))
    /\ Split(Lower(sim_full_name)) \in Perms(Split(Lower(sim_name)))
    /\ RatEq(sim_score, One)

\* C10: matching never changes the member list or the correction map; the list
\* match_all returns has one outcome per record, in input order; and each
\* outcome is what find_by_name gives for that record's name alone.
MatchingFrame ==
    /\ [](\A i \in DOMAIN matches :
              /\ i <= Len(race_results)
              /\ matches[i].race_result = race_results[i]
              /\ LET r == find_by_name(members, name_corrections,
                                     race_results[i].name, min_confidence,
                                     ambiguity_threshold)
                 IN /\ matches[i].member = r.member
                    /\ matches[i].confidence = r.confidence
                    /\ matches[i].is_ambiguous = r.is_ambiguous)
    /\ [](pc = "ready" => Len(matches) = Len(race_results))
    /\ [][(pc \in {"ready", "matching"}) =>
              (members' = members /\ name_corrections' = name_corrections)]_vars

\* C10 witness: match_all has returned two outcomes that resolve to the same
\* member
MatchingFrameWitness ==
    /\ pc = "ready"
    /\ Len(matches) = 2
    /\ matches[1].race_result.name # matches[2].race_result.name
    /\ matches[1].matched
    /\ matches[1].member = matches[2].member

-----------------------------------------------------------------------------
(* scoring.py: the points formula of PointsConfig.                         *)

\* Largest finishing place handed to the points formula.
MaxPlace == 200

RaceTypes == {RACE_75, RACE_100}

\* The places a results file can hold: `place` is int(row.get("place", 0)),
\* so zero and negative places are read like any other.
Places == (0 - 2)..MaxPlace

\* calculate_overall_points with the step of two carried one place too far
calculate_overall_points_late_break(rt, p) ==
    IF rt = RACE_100
    THEN IF p = 1 THEN 100
         ELSE IF p <= 11 THEN 100 - (p - 1) * 2
         ELSE IF p <= 91 THEN 82 - (p - 10)
         ELSE 1
    ELSE IF p = 1 THEN 75
         ELSE IF p <= 11 THEN 75 - (p - 1) * 2
         ELSE IF p <= 66 THEN 57 - (p - 10)
         ELSE 1

\* PointsConfig.calculate_overall_points(place) of a config of race type rt
calculate_overall_points(rt, p) ==
    IF rt = RACE_100
    THEN IF p = 1 THEN 100
         ELSE IF p <= 10 THEN 100 - (p - 1) * 2
         ELSE IF p <= 91 THEN 82 - (p - 10)
         ELSE 1
    ELSE IF p = 1 THEN 75
         ELSE IF p <= 10 THEN 75 - (p - 1) * 2
         ELSE IF p <= 66 THEN 57 - (p - 10)
         ELSE 1

\* PointsConfig.calculate_age_group_points(place_in_age_group)
calculate_age_group_points(rt, place_in_age_group) ==
    LET max_points == IF rt = RACE_100 THEN 20 ELSE 15
    IN  IF place_in_age_group <= max_points
        THEN max_points - (place_in_age_group - 1)
        ELSE 1

\* PointsConfig(race_type) is built and asked for the points of one place
InitPoints ==
    /\ MatcherIdle
    /\ SimIdle
    /\ pc = "points"
    /\ race_type \in RaceTypes
    /\ place \in Places
    /\ overall_points = <<>>
    /\ RaceIdle
    /\ SeriesIdle
    /\ ExportIdle
    /\ AgeIdle
    /\ CliIdle

\* config.calculate_overall_points(place)
OverallPointsCall ==
    /\ pc = "points"
    /\ overall_points = <<>>
    /\ overall_points' = <<calculate_overall_points(race_type, place)>>
    /\ UNCHANGED <<matcherVars, simVars, race_type, place, raceVars, seriesVars,
                   exportVars, ageVars, cliVars>>

NextPoints == OverallPointsCall

SpecPoints == InitPoints /\ [][NextPoints]_vars

\* C11: for every place >= 1 the overall points are the two-segment formula
\* (75-point race: 75 - 2*(place-1) up to place 10, 57 - (place-10) up to
\* place 66, then 1; 100-point race: 100 - 2*(place-1) up to place 10,
\* 82 - (place-10) up to place 91, then 1); they are never below 1 and the
\* next place never earns more.
OverallPointsReference ==
    (pc = "points" /\ overall_points # <<>> /\ place >= 1) =>
        LET v == overall_points[1]
        IN  /\ race_type = RACE_75 =>
                v = IF place <= 10 THEN 75 - 2 * (place - 1)
                    ELSE IF place <= 66 THEN 57 - (place - 10)
                    ELSE 1
            /\ race_type = RACE_100 =>
                v = IF place <= 10 THEN 100 - 2 * (place - 1)
                    ELSE IF place <= 91 THEN 82 - (place - 10)
                    ELSE 1
            /\ v >= 1
            /\ calculate_overall_points(race_type, place + 1) <= v

\* C11 witness: place 11 of a 75-point race, the first place of the second
\* segment, has been given its 56 points.
OverallPointsReferenceWitness ==
    /\ pc = "points"
    /\ race_type = RACE_75
    /\ place = 11
    /\ overall_points = <<56>>

-----------------------------------------------------------------------------
(* scoring.py: PointsCalculator.calculate_race_points.                     *)
(*                                                                         *)
(* An optional value (int | None, str | None) is <<>> for None and <<v>>   *)
(* for the value v.  An AgeGroup is written as its value, the string of    *)
(* the enum member; None where an AgeGroup is expected is the empty        *)
(* string, which no member has as its value.                               *)

\* Largest number of finishers in a race drawn from the pool of finishers.
MaxFinishers == 3

\* Number of finishers of the one big race, all in one age group.
MaxField == 22

UNDER_20 == <<85, 50, 48>>
AGE_20_29 == <<50, 48, 45, 50, 57>>
AGE_30_39 == <<51, 48, 45, 51, 57>>
AGE_40_49 == <<52, 48, 45, 52, 57>>
AGE_50_59 == <<53, 48, 45, 53, 57>>
AGE_60_69 == <<54, 48, 45, 54, 57>>
AGE_70_79 == <<55, 48, 45, 55, 57>>
AGE_80_PLUS == <<56, 48, 43>>
NoAgeGroup == <<>>

\* AgeGroup.from_age(age)
from_age(age) ==
    IF age = <<>> THEN NoAgeGroup
    ELSE IF age[1] <= 19 THEN UNDER_20
    ELSE IF age[1] <= 29 THEN AGE_20_29
    ELSE IF age[1] <= 39 THEN AGE_30_39
    ELSE IF age[1] <= 49 THEN AGE_40_49
    ELSE IF age[1] <= 59 THEN AGE_50_59
    ELSE IF age[1] <= 69 THEN AGE_60_69
    ELSE IF age[1] <= 79 THEN AGE_70_79
    ELSE AGE_80_PLUS

\* Member(member_id, first_name, last_name, age=..., gender=...)
Member(id, first, last, age, gender) ==
    [member_id |-> id, first_name |-> first, last_name |-> last,
     age |-> age, gender |-> gender]

\* list.sort(key=...) on <<key, item>> pairs: stable, ascending
RECURSIVE InsertByKey(_, _)
InsertByKey(x, sorted) ==
    IF sorted = <<>> THEN <<x>>
    ELSE IF x[1] < Head(sorted)[1] THEN <<x>> \o sorted
    ELSE <<Head(sorted)>> \o InsertByKey(x, Tail(sorted))

RECURSIVE SortByKeyFrom(_, _)
SortByKeyFrom(pairs, acc) ==
    IF pairs = <<>> THEN acc
    ELSE SortByKeyFrom(Tail(pairs), InsertByKey(Head(pairs), acc))

\* a sort that leaves the list in the order it came in
SortByKeyAsGiven(pairs) == pairs

SortByKey(pairs) == SortByKeyFrom(pairs, <<>>)

\* the position of x in seq
RECURSIVE IndexOf(_, _)
IndexOf(seq, x) == IF Head(seq) = x THEN 1 ELSE 1 + IndexOf(Tail(seq), x)

\* matched_results = [match for match in match_results
\*                    if match.matched and match.member]
matched_results(ms) == SelectSeq(ms, LAMBDA m : m.matched /\ m.member # NoMember)

\* the first loop of calculate_race_points: one RacePoints per matched
\* finisher, its age-group fields still at their defaults
OverallRacePoints(rt, ms, race_name) ==
    LET mr == matched_results(ms)
    IN  [i \in 1..Len(mr) |->
            [member_id |-> mr[i].member.member_id,
             race_name |-> race_name,
             overall_place |-> mr[i].race_result.place,
             overall_points |-> calculate_overall_points(rt, mr[i].race_result.place),
             age_group |-> from_age(mr[i].member.age),
             age_group_place |-> <<>>,
             age_group_points |-> 0,
             gender |-> mr[i].member.gender]]

\* key = (rp.age_group, rp.gender)
GroupKey(rp) == <<rp.age_group, rp.gender>>

\* groups[key], as positions in race_points, after
\* group_members.sort(key=lambda x: x.overall_place)
group_members(rps, key) ==
    LET idx == SelectSeq([i \in 1..Len(rps) |-> i],
                         LAMBDA i : GroupKey(rps[i]) = key)
        sorted == SortByKey([k \in 1..Len(idx) |->
                                <<rps[idx[k]].overall_place, idx[k]>>])
    IN  [k \in 1..Len(sorted) |-> sorted[k][2]]

\* _calculate_age_group_points ranking only the finishers whose age group
\* and gender are known, the others left at their defaults
age_group_points_of_known_only(rt, rps) ==
    [i \in 1..Len(rps) |->
        LET idx == IndexOf(group_members(rps, GroupKey(rps[i])), i)
        IN  IF rps[i].age_group = NoAgeGroup \/ rps[i].gender = <<>>
            THEN rps[i]
            ELSE [rps[i] EXCEPT !.age_group_place = <<idx>>,
                                !.age_group_points = calculate_age_group_points(rt, idx)]]

\* PointsCalculator._calculate_age_group_points(race_points)
age_group_points_of(rt, rps) ==
    [i \in 1..Len(rps) |->
        LET idx == IndexOf(group_members(rps, GroupKey(rps[i])), i)
        IN  [rps[i] EXCEPT !.age_group_place = <<idx>>,
                           !.age_group_points = calculate_age_group_points(rt, idx)]]

\* PointsCalculator(PointsConfig(rt)).calculate_race_points(ms, race_name)
calculate_race_points(rt, ms, race_name) ==
    age_group_points_of(rt, OverallRacePoints(rt, ms, race_name))

\* RacePoints.total_points
total_points(rp) == rp.overall_points + rp.age_group_points

(* The finishers a race is drawn from. *)
GenderM == << <<77>> >>
GenderF == << <<70>> >>

MemberM35 == Member(<<49>>, <<97>>, <<98>>, <<35>>, GenderM)
MemberM38 == Member(<<50>>, <<98>>, <<97>>, <<38>>, GenderM)
MemberF35 == Member(<<51>>, <<97>>, <<99>>, <<35>>, GenderF)
MemberMNoAge == Member(<<52>>, <<99>>, <<97>>, <<>>, GenderM)
MemberNoGender == Member(<<53>>, <<99>>, <<98>>, <<30>>, <<>>)

\* MatchResult(race_result=RaceResult(place, name, time), member, matched)
MatchOf(m, p) ==
    [race_result |-> [place |-> p, name |-> full_name(m), time |-> <<49, 56, 58, 51, 48>>],
     member |-> m, matched |-> TRUE, confidence |-> One, is_ambiguous |-> FALSE]

\* a finisher no member was found for
Unmatched(p) ==
    [race_result |-> [place |-> p, name |-> <<120>>, time |-> <<49, 56, 58, 51, 48>>],
     member |-> NoMember, matched |-> FALSE, confidence |-> Zero, is_ambiguous |-> FALSE]

\* a MatchResult with matched set and no member
MatchedNoMember(p) == [Unmatched(p) EXCEPT !.matched = TRUE]

FinisherPool ==
    {MatchOf(m, p) : m \in {MemberM35, MemberM38, MemberF35, MemberMNoAge,
                            MemberNoGender}, p \in 1..2}
        \cup {Unmatched(3), MatchedNoMember(3)}

\* a race of MaxField men of one age group, listed last finisher first
BigField ==
    [i \in 1..MaxField |->
        MatchOf(Member(<<64 + i>>, <<97>>, <<98>>, <<35>>, GenderM), MaxField + 1 - i)]

RacePool == UNION {[1..n -> FinisherPool] : n \in 0..MaxFinishers} \cup {BigField}

RaceNameA == <<53, 107>>

InitRace ==
    /\ MatcherIdle
    /\ SimIdle
    /\ pc = "race"
    /\ race_type \in RaceTypes
    /\ place = 1
    /\ overall_points = <<>>
    /\ match_results \in RacePool
    /\ race_points = <<>>
    /\ SeriesIdle
    /\ ExportIdle
    /\ AgeIdle
    /\ CliIdle

\* race_points = calculator.calculate_race_points(matches, race.name)
RacePointsCall ==
    /\ pc = "race"
    /\ race_points' = calculate_race_points(race_type, match_results, RaceNameA)
    /\ pc' = "raced"
    /\ UNCHANGED <<members, name_corrections, min_confidence, ambiguity_threshold,
                   race_results, matches, simVars, pointsVars, match_results,
                   seriesVars, exportVars, ageVars, cliVars>>

NextRace == RacePointsCall

SpecRace == InitRace /\ [][NextRace]_vars

\* the positions in rps of the finishers in the subgroup of rps[i]
SubgroupOf(rps, i) == {j \in 1..Len(rps) : GroupKey(rps[j]) = GroupKey(rps[i])}

\* C12: within each (age group, gender) subgroup of the matched finishers of
\* a race the age_group_place values are exactly 1..k, a finisher with a
\* smaller overall place has the smaller age_group_place whatever the order
\* of the input list, and age_group_points is ceiling - (rank - 1) up to
\* rank = ceiling and 1 beyond, with ceiling 15 (75-point race) or 20
\* (100-point race).
AgeGroupRanking ==
    pc = "raced" =>
        LET ceiling == IF race_type = RACE_75 THEN 15 ELSE 20
        IN  \A i \in 1..Len(race_points) :
                LET G == SubgroupOf(race_points, i)
                    rank == race_points[i].age_group_place[1]
                IN  /\ race_points[i].age_group_place # <<>>
                    /\ {race_points[j].age_group_place[1] : j \in G} = 1..Cardinality(G)
                    /\ \A j \in G :
                           race_points[i].overall_place < race_points[j].overall_place
                               => rank < race_points[j].age_group_place[1]
                    /\ race_points[i].age_group_points =
                           IF rank <= ceiling THEN ceiling - (rank - 1) ELSE 1

\* C12 witness: the big race, listed last finisher first, has been scored in
\* a 75-point race: its winner is first of the subgroup with 15 points and
\* the finisher in place 16 has rank 16, beyond the ceiling, with 1 point.
AgeGroupRankingWitness ==
    /\ pc = "raced"
    /\ race_type = RACE_75
    /\ Len(race_points) > 15
    /\ \E i, j \in 1..Len(race_points) :
           /\ i > j
           /\ race_points[i].overall_place = 1
           /\ race_points[i].age_group_place = <<1>>
           /\ race_points[i].age_group_points = 15
           /\ race_points[j].overall_place = 16
           /\ race_points[j].age_group_place = <<16>>
           /\ race_points[j].age_group_points = 1

-----------------------------------------------------------------------------
(* scoring.py: SeriesScoring.                                              *)

\* Largest number of races the loop of cli.main processes.
MaxRaces == 3

\* sorted(..., key=..., reverse=True) on <<key, item>> pairs: stable, descending
RECURSIVE InsertByKeyDesc(_, _)
InsertByKeyDesc(x, sorted) ==
    IF sorted = <<>> THEN <<x>>
    ELSE IF Head(sorted)[1] < x[1] THEN <<x>> \o sorted
    ELSE <<Head(sorted)>> \o InsertByKeyDesc(x, Tail(sorted))

RECURSIVE SortByKeyDescFrom(_, _)
SortByKeyDescFrom(pairs, acc) ==
    IF pairs = <<>> THEN acc
    ELSE SortByKeyDescFrom(Tail(pairs), InsertByKeyDesc(Head(pairs), acc))

SortByKeyDesc(pairs) == SortByKeyDescFrom(pairs, <<>>)

\* the races of a member left in the order they were added in
SortedByTotalAsAdded(points_list) == points_list

\* sorted(points_list, key=lambda x: x.total_points, reverse=True)
SortedByTotal(points_list) ==
    LET sorted == SortByKeyDesc([i \in 1..Len(points_list) |->
                                    <<total_points(points_list[i]), points_list[i]>>])
    IN  [i \in 1..Len(sorted) |-> sorted[i][2]]

\* sorted(points_list, key=lambda x: x.overall_points, reverse=True)
SortedByOverall(points_list) ==
    LET sorted == SortByKeyDesc([i \in 1..Len(points_list) |->
                                    <<points_list[i].overall_points, points_list[i]>>])
    IN  [i \in 1..Len(sorted) |-> sorted[i][2]]

\* the age-group selection made on the overall points
SortedByAgeGroupAsOverall(points_list) == SortedByOverall(points_list)

\* sorted(points_list, key=lambda x: x.age_group_points, reverse=True)
SortedByAgeGroup(points_list) ==
    LET sorted == SortByKeyDesc([i \in 1..Len(points_list) |->
                                    <<points_list[i].age_group_points, points_list[i]>>])
    IN  [i \in 1..Len(sorted) |-> sorted[i][2]]

\* totals.sort(key=lambda x: x.total_points, reverse=True)
SortedTotals(totals) ==
    LET sorted == SortByKeyDesc([i \in 1..Len(totals) |->
                                    <<totals[i].total_points, totals[i]>>])
    IN  [i \in 1..Len(sorted) |-> sorted[i][2]]

\* a slice that keeps the whole list
TakeAll(seq, n) == seq

\* a slice that keeps the last n elements of the list
TakeLast(seq, n) == SubSeq(seq, IF n < Len(seq) THEN Len(seq) - n + 1 ELSE 1, Len(seq))

\* seq[:n] for n >= 0
Take(seq, n) == SubSeq(seq, 1, IF n < Len(seq) THEN n ELSE Len(seq))

\* sum(f(p) for p in seq) on the list of the values f(p)
RECURSIVE Sum(_)
Sum(seq) == IF seq = <<>> THEN 0 ELSE Head(seq) + Sum(Tail(seq))

\* the keys of a dict filled in the order of seq: each value once, in the
\* order of its first occurrence
RECURSIVE FirstOccurrences(_, _)
FirstOccurrences(seq, acc) ==
    IF seq = <<>> THEN acc
    ELSE FirstOccurrences(Tail(seq),
             IF \E i \in 1..Len(acc) : acc[i] = Head(seq)
             THEN acc ELSE Append(acc, Head(seq)))

\* the keys of member_points, in insertion order
member_ids(rps) == FirstOccurrences([i \in 1..Len(rps) |-> rps[i].member_id], <<>>)

\* member_points[member_id]
points_list_of(rps, member_id) == SelectSeq(rps, LAMBDA rp : rp.member_id = member_id)

\* next((m for m in member_registry.get_all_members()
\*       if m.member_id == member_id), None)
member_of(ms, member_id) ==
    IF \E i \in 1..Len(ms) : ms[i].member_id = member_id
    THEN ms[CHOOSE i \in 1..Len(ms) :
                /\ ms[i].member_id = member_id
                /\ \A j \in 1..(i - 1) : ms[j].member_id # member_id]
    ELSE NoMember

\* the string "Unknown"
Unknown == <<85, 110, 107, 110, 111, 119, 110>>

\* {rp.race_name: value(rp) for rp in counted}: a later entry of the same
\* race name replaces the earlier one
DictByRace(counted, values) ==
    [r \in {counted[i].race_name : i \in 1..Len(counted)} |->
        values[CHOOSE i \in 1..Len(counted) :
                  /\ counted[i].race_name = r
                  /\ \A j \in (i + 1)..Len(counted) : counted[j].race_name # r]]

\* SeriesTotal(...)
SeriesTotal(member_id, member_name, counted, values) ==
    [member_id |-> member_id,
     member_name |-> member_name,
     races_completed |-> Len(counted),
     total_points |-> Sum(values),
     race_details |-> counted,
     race_points_by_race |-> DictByRace(counted, values)]

\* the body of the loop `for member_id, points_list in member_points.items()`
\* of calculate_series_totals
series_total_of(ms, rps, member_id, K) ==
    LET member == member_of(ms, member_id)
        counted_races == Take(SortedByTotal(points_list_of(rps, member_id)), K)
    IN  SeriesTotal(member_id,
                    IF member # NoMember THEN full_name(member) ELSE Unknown,
                    counted_races,
                    [i \in 1..Len(counted_races) |-> total_points(counted_races[i])])

\* SeriesScoring.calculate_series_totals(member_registry, max_races=K)
calculate_series_totals(ms, rps, K) ==
    LET ids == member_ids(rps)
    IN  SortedTotals([i \in 1..Len(ids) |-> series_total_of(ms, rps, ids[i], K)])

\* a test that lets the empty string pass
TruthyNotNone(opt) == opt # <<>>

\* `if x:` on an optional string: neither None nor ""
Truthy(opt) == opt # <<>> /\ opt[1] # <<>>

\* the string "_overall"
OverallSuffix == <<95, 111, 118, 101, 114, 97, 108, 108>>

\* the body of the loop `for member_id, points_list in member_points.items()`
\* of calculate_category_standings: the (category, SeriesTotal) pairs it
\* appends, in the order it appends them
category_entries_of(ms, rps, member_id, K) ==
    LET member == member_of(ms, member_id)
    IN  IF member = NoMember THEN <<>>
        ELSE IF ~Truthy(member.gender) THEN <<>>
        ELSE
            LET member_name == full_name(member)
                gender == member.gender[1]
                age_group == from_age(member.age)
                points_list == points_list_of(rps, member_id)
                counted_overall == Take(SortedByOverall(points_list), K)
                counted_age_group == Take(SortedByAgeGroup(points_list), K)
                overall_entry ==
                    [category |-> gender \o OverallSuffix,
                     total |-> SeriesTotal(member_id, member_name, counted_overall,
                                   [i \in 1..Len(counted_overall) |->
                                       counted_overall[i].overall_points])]
                age_entry ==
                    [category |-> gender \o <<95>> \o age_group,
                     total |-> SeriesTotal(member_id, member_name, counted_age_group,
                                   [i \in 1..Len(counted_age_group) |->
                                       counted_age_group[i].age_group_points])]
            IN  IF age_group # NoAgeGroup
                THEN <<overall_entry, age_entry>>
                ELSE <<overall_entry>>

RECURSIVE category_entries(_, _, _, _)
category_entries(ms, rps, ids, K) ==
    IF ids = <<>> THEN <<>>
    ELSE category_entries_of(ms, rps, Head(ids), K)
             \o category_entries(ms, rps, Tail(ids), K)

\* SeriesScoring.calculate_category_standings(member_registry, max_races=K)
calculate_category_standings(ms, rps, K) ==
    LET entries == category_entries(ms, rps, member_ids(rps), K)
    IN  [c \in {entries[i].category : i \in 1..Len(entries)} |->
            LET mine == SelectSeq(entries, LAMBDA e : e.category = c)
            IN  SortedTotals([i \in 1..Len(mine) |-> mine[i].total])]

\* add_race_points recording the race name on every call
race_names_after_always_append(names, rps) ==
    IF rps # <<>> THEN Append(names, rps[1].race_name) ELSE names

\* self.race_names after add_race_points(rps)
race_names_after(names, rps) ==
    IF rps # <<>>
    THEN LET race_name == rps[1].race_name
         IN  IF \E i \in 1..Len(names) : names[i] = race_name
             THEN names ELSE Append(names, race_name)
    ELSE names

(* The members and the races of a series. *)
MemberBlankGender == Member(<<54>>, <<98>>, <<99>>, <<19>>, << <<>> >>)
MemberLeft == Member(<<55>>, <<99>>, <<99>>, <<40>>, GenderM)
MemberAgeZero == Member(<<56>>, <<97>>, <<97>>, <<0>>, GenderM)

\* the registry the standings are calculated with; MemberLeft is not in it
SeriesRegistry ==
    <<MemberM35, MemberM38, MemberF35, MemberMNoAge, MemberNoGender,
      MemberBlankGender, MemberAgeZero>>

RaceNameB == <<49, 48, 107>>

SeriesRaceNames == {RaceNameA, RaceNameB}

SeriesRaces ==
    { <<MatchOf(MemberM38, 1), MatchOf(MemberM35, 2)>>,
      <<MatchOf(MemberF35, 1), MatchOf(MemberM35, 3)>>,
      <<MatchOf(MemberM35, 1), MatchOf(MemberM35, 2)>>,
      <<MatchOf(MemberMNoAge, 1), MatchOf(MemberNoGender, 2), Unmatched(3),
        MatchOf(MemberBlankGender, 4), MatchOf(MemberLeft, 5),
        MatchOf(MemberAgeZero, 6)>>,
      <<Unmatched(1)>> }

MaxRacesOptions == {1, 2, 7}

\* series = SeriesScoring() in cli.main, with calculator = PointsCalculator()
InitSeries ==
    /\ members = SeriesRegistry
    /\ name_corrections = EmptyDict
    /\ min_confidence = <<7, 10>>
    /\ ambiguity_threshold = <<1, 20>>
    /\ race_results = <<>>
    /\ matches = <<>>
    /\ SimIdle
    /\ pc = "series"
    /\ PointsIdle
    /\ RaceIdle
    /\ SeriesIdle
    /\ ExportIdle
    /\ AgeIdle
    /\ CliIdle

\* one pass of the race loop of cli.main:
\*     race_points = calculator.calculate_race_points(matches, race.name)
\*     series.add_race_points(race_points)
add_race_points ==
    /\ pc = "series"
    /\ race_index < MaxRaces
    /\ \E race_name \in SeriesRaceNames, ms \in SeriesRaces :
           LET rps == calculate_race_points(race_type, ms, race_name)
           IN  /\ match_results' = ms
               /\ race_points' = rps
               /\ all_race_points' = all_race_points \o rps
               /\ race_names' = race_names_after(race_names, rps)
    /\ race_index' = race_index + 1
    /\ UNCHANGED <<matcherVars, simVars, pointsVars, max_races, series_totals,
                   category_standings, returned_names, names_shared, exportVars, ageVars, cliVars>>

\* series.calculate_series_totals(member_registry, max_races=K)
SeriesTotalsCall ==
    /\ pc = "series"
    /\ \E K \in MaxRacesOptions :
           /\ max_races' = K
           /\ series_totals' = calculate_series_totals(members, all_race_points, K)
    /\ pc' = "totals"
    /\ UNCHANGED <<members, name_corrections, min_confidence, ambiguity_threshold,
                   race_results, matches, simVars, pointsVars, raceVars,
                   all_race_points, race_names, race_index, category_standings,
                   returned_names, names_shared, exportVars, ageVars, cliVars>>

\* series.calculate_category_standings(member_registry, max_races=K)
CategoryStandingsCall ==
    /\ pc = "series"
    /\ \E K \in MaxRacesOptions :
           /\ max_races' = K
           /\ category_standings' =
                  calculate_category_standings(members, all_race_points, K)
    /\ pc' = "standings"
    /\ UNCHANGED <<members, name_corrections, min_confidence, ambiguity_threshold,
                   race_results, matches, simVars, pointsVars, raceVars,
                   all_race_points, race_names, race_index, series_totals,
                   returned_names, names_shared, exportVars, ageVars, cliVars>>

\* race_names = series.get_race_names(): return self.race_names.copy()
get_race_names ==
    /\ pc = "series"
    /\ returned_names' = race_names
    /\ names_shared' = FALSE
    /\ pc' = "names"
    /\ UNCHANGED <<members, name_corrections, min_confidence, ambiguity_threshold,
                   race_results, matches, simVars, pointsVars, raceVars,
                   all_race_points, race_names, race_index, max_races,
                   series_totals, category_standings, exportVars, ageVars, cliVars>>

\* the caller appends to, or removes from, the list it was handed; a list
\* that is the accumulator's own changes with it
MutateReturnedNames ==
    /\ pc = "names"
    /\ Len(returned_names) <= Len(race_names)
    /\ \/ returned_names' = Append(returned_names, <<120>>)
       \/ /\ returned_names # <<>>
          /\ returned_names' = Tail(returned_names)
    /\ race_names' = IF names_shared THEN returned_names' ELSE race_names
    /\ UNCHANGED <<matcherVars, simVars, pointsVars, raceVars, all_race_points,
                   race_index, max_races, series_totals, category_standings,
                   names_shared, exportVars, ageVars, cliVars>>

NextSeries ==
    \/ add_race_points
    \/ SeriesTotalsCall
    \/ CategoryStandingsCall
    \/ get_race_names
    \/ MutateReturnedNames

SpecSeries == InitSeries /\ [][NextSeries]_vars

\* the largest value of a non-empty list of integers
RECURSIVE MaxOf(_)
MaxOf(seq) ==
    IF Len(seq) = 1 THEN seq[1]
    ELSE LET m == MaxOf(Tail(seq)) IN IF Head(seq) >= m THEN Head(seq) ELSE m

\* seq without one occurrence of x
RECURSIVE RemoveOne(_, _)
RemoveOne(seq, x) ==
    IF seq = <<>> THEN <<>>
    ELSE IF Head(seq) = x THEN Tail(seq)
    ELSE <<Head(seq)>> \o RemoveOne(Tail(seq), x)

\* the sum of the k largest values of a list, or of all when it has at most k
RECURSIVE SumLargest(_, _)
SumLargest(seq, k) ==
    IF k = 0 \/ seq = <<>> THEN 0
    ELSE LET m == MaxOf(seq) IN m + SumLargest(RemoveOne(seq, m), k - 1)

\* the members with a recorded race result
RecordedIds == {all_race_points[i].member_id : i \in 1..Len(all_race_points)}

\* the recorded results of a member
ResultsOf(id) == SelectSeq(all_race_points, LAMBDA rp : rp.member_id = id)

\* a list of SeriesTotal is ordered by total_points, descending
Descending(totals) ==
    \A i \in 1..Len(totals) : \A j \in (i + 1)..Len(totals) :
        totals[i].total_points >= totals[j].total_points

\* C13: calculate_series_totals(registry, max_races = K) has one entry per
\* member with recorded results; its total_points is the sum of the K largest
\* per-race totals (overall + age-group points) of the member's n results, or
\* of all when n <= K, its races_completed is min(n, K), and the list is
\* ordered by total_points descending.
SeriesTotalsTopK ==
    pc = "totals" =>
        /\ Len(series_totals) = Cardinality(RecordedIds)
        /\ \A id \in RecordedIds :
               LET results == ResultsOf(id)
                   n == Len(results)
               IN  \E i \in 1..Len(series_totals) :
                       /\ series_totals[i].member_id = id
                       /\ series_totals[i].total_points =
                              SumLargest([k \in 1..n |->
                                  results[k].overall_points + results[k].age_group_points],
                                  max_races)
                       /\ series_totals[i].races_completed =
                              IF n <= max_races THEN n ELSE max_races
        /\ Descending(series_totals)

\* C13 witness: totals were calculated with K = 1 for a series in which a
\* member has two results of different totals, so only the larger counts,
\* and the list has two members with different totals.
SeriesTotalsTopKWitness ==
    /\ pc = "totals"
    /\ max_races = 1
    /\ \E i, j \in 1..Len(series_totals) :
           i < j /\ series_totals[i].total_points > series_totals[j].total_points
    /\ \E i \in 1..Len(series_totals) :
           LET results == ResultsOf(series_totals[i].member_id)
           IN  /\ Len(results) = 2
               /\ total_points(results[1]) < total_points(results[2])
               /\ series_totals[i].races_completed = 1
               /\ series_totals[i].total_points = total_points(results[2])

\* the category name ends with "_overall"
IsOverallCategory(c) ==
    /\ Len(c) >= Len(OverallSuffix)
    /\ SubSeq(c, Len(c) - Len(OverallSuffix) + 1, Len(c)) = OverallSuffix

\* C14: in calculate_category_standings the total of a member in a
\* "<gender>_overall" category is the sum of the member's top-K overall
\* points, the total in a "<gender>_<age group>" category is the sum of the
\* member's top-K age-group points, each selection made on its own point
\* value, and every category list is ordered by total descending.
CategoryTotalsByOwnPoints ==
    pc = "standings" =>
        \A c \in DOMAIN category_standings :
            LET totals == category_standings[c]
            IN  /\ \A i \in 1..Len(totals) :
                       LET results == ResultsOf(totals[i].member_id)
                       IN  totals[i].total_points =
                               SumLargest([k \in 1..Len(results) |->
                                   IF IsOverallCategory(c)
                                   THEN results[k].overall_points
                                   ELSE results[k].age_group_points], max_races)
                /\ Descending(totals)

\* C14 witness: standings with K = 1 of a member whose best overall points
\* and best age-group points come from different races: the overall
\* category counts the one race, the age-group category the other.
CategoryTotalsByOwnPointsWitness ==
    /\ pc = "standings"
    /\ max_races = 1
    /\ \E c, d \in DOMAIN category_standings :
           /\ IsOverallCategory(c)
           /\ ~IsOverallCategory(d)
           /\ \E i \in 1..Len(category_standings[c]),
                 j \in 1..Len(category_standings[d]) :
                  LET o == category_standings[c][i]
                      a == category_standings[d][j]
                      results == ResultsOf(o.member_id)
                  IN  /\ o.member_id = a.member_id
                      /\ Len(results) = 2
                      /\ results[1].overall_points > results[2].overall_points
                      /\ results[1].age_group_points < results[2].age_group_points
                      /\ o.total_points = results[1].overall_points
                      /\ a.total_points = results[2].age_group_points
                      /\ o.race_details[1].race_name # a.race_details[1].race_name

\* the member with this id appears in the list of SeriesTotal
AppearsIn(totals, id) == \E i \in 1..Len(totals) : totals[i].member_id = id

\* C15: a member with a recorded result appears in "<g>_overall" iff the
\* registry holds the member with a non-empty gender g, and in an age-group
\* bucket iff in addition the age is known, the bucket being the one of that
\* age; a member without gender or absent from the registry appears in no
\* category; no member appears twice in a category or in two age buckets.
CategoryMembership ==
    pc = "standings" =>
        /\ \A id \in RecordedIds : \A c \in DOMAIN category_standings :
               LET m == member_of(members, id)
                   held == m # NoMember /\ m.gender # <<>> /\ m.gender[1] # <<>>
               IN  AppearsIn(category_standings[c], id) <=>
                       /\ held
                       /\ \/ c = m.gender[1] \o OverallSuffix
                          \/ /\ m.age # <<>>
                             /\ c = m.gender[1] \o <<95>> \o from_age(m.age)
        /\ \A id \in RecordedIds :
               LET m == member_of(members, id)
               IN  (m # NoMember /\ m.gender # <<>> /\ m.gender[1] # <<>>) =>
                       /\ m.gender[1] \o OverallSuffix \in DOMAIN category_standings
                       /\ m.age # <<>> =>
                              m.gender[1] \o <<95>> \o from_age(m.age)
                                  \in DOMAIN category_standings
        /\ \A c \in DOMAIN category_standings :
               \A i, j \in 1..Len(category_standings[c]) :
                   category_standings[c][i].member_id
                       = category_standings[c][j].member_id => i = j

\* C15 witness: standings of a series in which a member without gender, a
\* member with an empty gender, a member who is not in the registry and a
\* man without age all have results; only the last is in a category, the
\* overall one; a man of 35 is in "M_overall" and in "M_30-39", a man whose
\* age is 0 in "M_U20".
CategoryMembershipWitness ==
    /\ pc = "standings"
    /\ {MemberNoGender.member_id, MemberBlankGender.member_id,
         MemberLeft.member_id, MemberMNoAge.member_id,
         MemberM35.member_id, MemberAgeZero.member_id} \subseteq RecordedIds
    /\ AppearsIn(category_standings[<<77>> \o OverallSuffix], MemberMNoAge.member_id)
    /\ AppearsIn(category_standings[<<77>> \o OverallSuffix], MemberM35.member_id)
    /\ AppearsIn(category_standings[<<77, 95>> \o AGE_30_39], MemberM35.member_id)
    /\ AppearsIn(category_standings[<<77, 95>> \o UNDER_20], MemberAgeZero.member_id)

\* the race names of the recorded results, in the order they were added
AddedRaceNames == [i \in 1..Len(all_race_points) |-> all_race_points[i].race_name]

\* C16: after any sequence of add_race_points calls the accumulator's race
\* names are the names of the added races in the order each was first
\* added, none twice; get_race_names returns that list, and a caller
\* mutating the returned list leaves the accumulator's list unchanged.
RaceNamesFirstAdded ==
    /\ [](/\ race_names = FirstOccurrences(AddedRaceNames, <<>>)
          /\ \A i, j \in 1..Len(race_names) :
                 race_names[i] = race_names[j] => i = j)
    /\ [][(pc = "series" /\ pc' = "names") => returned_names' = race_names]_vars
    /\ [][(pc = "names") => race_names' = race_names]_vars

\* C16 witness: the races "5k", "10k" and "5k" again were added; the names
\* are "5k", "10k", and the caller has appended to the list it was handed.
RaceNamesFirstAddedWitness ==
    /\ pc = "names"
    /\ race_index = 3
    /\ race_names = <<RaceNameA, RaceNameB>>
    /\ all_race_points[Len(all_race_points)].race_name = RaceNameA
    /\ returned_names = <<RaceNameA, RaceNameB, <<120>>>>

\* the sum of the values of a race_points_by_race mapping
RECURSIVE SumOfValues(_, _)
SumOfValues(dict, keys) ==
    IF keys = {} THEN 0
    ELSE LET k == CHOOSE x \in keys : TRUE
         IN  dict[k] + SumOfValues(dict, keys \ {k})

\* C17: for every SeriesTotal of calculate_series_totals and of
\* calculate_category_standings, total_points is the sum of the values of
\* its race_points_by_race mapping.
TotalIsSumOfRaceColumns ==
    /\ pc = "totals" =>
           \A i \in 1..Len(series_totals) :
               series_totals[i].total_points =
                   SumOfValues(series_totals[i].race_points_by_race,
                               DOMAIN series_totals[i].race_points_by_race)
    /\ pc = "standings" =>
           \A c \in DOMAIN category_standings :
               \A i \in 1..Len(category_standings[c]) :
                   category_standings[c][i].total_points =
                       SumOfValues(category_standings[c][i].race_points_by_race,
                                   DOMAIN category_standings[c][i].race_points_by_race)

-----------------------------------------------------------------------------
(* export.py: ResultsExporter.export_category_standings, and the file read *)
(* back with csv.reader.                                                   *)
(*                                                                         *)
(* A cell handed to writer.writerow is <<"int", n>> for the integer n and  *)
(* <<"str", s>> for the string s.                                          *)

\* Largest number of entries in an exported category list.
MaxEntries == 2

IntCell(n) == <<"int", n>>
StrCell(str) == <<"str", str>>

\* ResultsExporter._sanitize_csv_field(value)
sanitize_csv_field(value) ==
    IF value[1] # "str" THEN value
    ELSE IF value[2] # <<>> /\ value[2][1] \in {61, 43, 45, 64, 9, 13}
         THEN StrCell(<<39>> \o value[2])
         ELSE value

\* the strings "Rank", "Member ID", "Name", "Races", "Total Points"
RankTitle == <<82, 97, 110, 107>>
MemberIdTitle == <<77, 101, 109, 98, 101, 114, 32, 73, 68>>
NameTitle == <<78, 97, 109, 101>>
RacesTitle == <<82, 97, 99, 101, 115>>
TotalPointsTitle == <<84, 111, 116, 97, 108, 32, 80, 111, 105, 110, 116, 115>>

\* header, as export_category_standings builds it
header(names) ==
    IF names # <<>>
    THEN <<StrCell(RankTitle), StrCell(MemberIdTitle), StrCell(NameTitle)>>
             \o [i \in 1..Len(names) |-> StrCell(names[i])]
             \o <<StrCell(TotalPointsTitle)>>
    ELSE <<StrCell(RankTitle), StrCell(MemberIdTitle), StrCell(NameTitle),
           StrCell(RacesTitle), StrCell(TotalPointsTitle)>>

\* race_columns = [total.race_points_by_race.get(race, "") for race in race_names]
race_columns(total, names) ==
    [i \in 1..Len(names) |->
        IF names[i] \in DOMAIN total.race_points_by_race
        THEN IntCell(total.race_points_by_race[names[i]])
        ELSE StrCell(<<>>)]

\* the data row written for the entry `total` at position `rank`
data_row(rank, total, names) ==
    IF names # <<>>
    THEN <<IntCell(rank),
           sanitize_csv_field(StrCell(total.member_id)),
           sanitize_csv_field(StrCell(total.member_name))>>
             \o race_columns(total, names)
             \o <<IntCell(total.total_points)>>
    ELSE <<IntCell(rank),
           sanitize_csv_field(StrCell(total.member_id)),
           sanitize_csv_field(StrCell(total.member_name)),
           IntCell(total.races_completed),
           IntCell(total.total_points)>>

\* the rows written to the file of one category
category_rows(totals, names) ==
    <<header(names)>> \o [rank \in 1..Len(totals) |-> data_row(rank, totals[rank], names)]

\* str(n) for an integer n
RECURSIVE Digits(_)
Digits(n) == IF n < 10 THEN <<48 + n>> ELSE Digits(n \div 10) \o <<48 + (n % 10)>>

IntToStr(n) == IF n < 0 THEN <<45>> \o Digits(0 - n) ELSE Digits(n)

\* s.replace('"', '""')
RECURSIVE DoubleQuotes(_)
DoubleQuotes(str) ==
    IF str = <<>> THEN <<>>
    ELSE (IF Head(str) = 34 THEN <<34, 34>> ELSE <<Head(str)>>) \o DoubleQuotes(Tail(str))

\* a writer that quotes no field
CsvFieldUnquoted(cell) == IF cell[1] = "int" THEN IntToStr(cell[2]) ELSE cell[2]

\* one field as csv.writer(f, quoting=csv.QUOTE_NONNUMERIC) writes it
CsvField(cell) ==
    IF cell[1] = "int" THEN IntToStr(cell[2])
    ELSE <<34>> \o DoubleQuotes(cell[2]) \o <<34>>

\* writer.writerow(row): the fields joined by commas, then "\r\n"
RECURSIVE CsvJoin(_)
CsvJoin(row) ==
    IF row = <<>> THEN <<>>
    ELSE IF Len(row) = 1 THEN CsvField(row[1])
    ELSE CsvField(Head(row)) \o <<44>> \o CsvJoin(Tail(row))

CsvLine(row) == CsvJoin(row) \o <<13, 10>>

RECURSIVE CsvText(_)
CsvText(rows) == IF rows = <<>> THEN <<>> ELSE CsvLine(Head(rows)) \o CsvText(Tail(rows))

\* open(path) in text mode: "\r\n" and "\r" are read as "\n"
UniversalNewlines(text) ==
    LET kept == SelectSeq([i \in 1..Len(text) |-> i],
                          LAMBDA i : ~(text[i] = 10 /\ i > 1 /\ text[i - 1] = 13))
    IN  [k \in 1..Len(kept) |-> IF text[kept[k]] = 13 THEN 10 ELSE text[kept[k]]]

\* the parser of csv.reader (dialect excel) before the first character
CsvStart == [state |-> "start_record", field |-> <<>>, row |-> <<>>, rows |-> <<>>]

\* the parser of csv.reader after the character c
CsvStep(st, c) ==
    CASE st.state = "start_record" /\ c = 10 ->
             [st EXCEPT !.rows = Append(st.rows, <<>>)]
      [] st.state \in {"start_record", "start_field"} /\ c = 34 ->
             [st EXCEPT !.state = "in_quoted"]
      [] st.state \in {"start_record", "start_field"} /\ c = 44 ->
             [st EXCEPT !.state = "start_field", !.row = Append(st.row, <<>>)]
      [] st.state = "start_field" /\ c = 10 ->
             [state |-> "start_record", field |-> <<>>, row |-> <<>>,
              rows |-> Append(st.rows, Append(st.row, <<>>))]
      [] st.state \in {"start_record", "start_field"} /\ c \notin {10, 34, 44} ->
             [st EXCEPT !.state = "in_field", !.field = <<c>>]
      [] st.state \in {"in_field", "quote_in_quoted"} /\ c = 10 ->
             [state |-> "start_record", field |-> <<>>, row |-> <<>>,
              rows |-> Append(st.rows, Append(st.row, st.field))]
      [] st.state \in {"in_field", "quote_in_quoted"} /\ c = 44 ->
             [st EXCEPT !.state = "start_field", !.field = <<>>,
                        !.row = Append(st.row, st.field)]
      [] st.state = "in_field" /\ c \notin {10, 44} ->
             [st EXCEPT !.field = Append(st.field, c)]
      [] st.state = "in_quoted" /\ c = 34 ->
             [st EXCEPT !.state = "quote_in_quoted"]
      [] st.state = "in_quoted" /\ c # 34 ->
             [st EXCEPT !.field = Append(st.field, c)]
      [] st.state = "quote_in_quoted" /\ c = 34 ->
             [st EXCEPT !.state = "in_quoted", !.field = Append(st.field, 34)]
      [] st.state = "quote_in_quoted" /\ c \notin {10, 34, 44} ->
             [st EXCEPT !.state = "in_field", !.field = Append(st.field, c)]

\* the states of the parser
CsvStates == {"start_record", "start_field", "in_field", "in_quoted", "quote_in_quoted"}

\* the parser after the characters text[lo..hi], taken in order: the first
\* half is parsed before the second is looked at
RECURSIVE CsvFold(_, _, _, _)
CsvFold(text, lo, hi, st) ==
    IF lo > hi THEN st
    ELSE IF lo = hi THEN CsvStep(st, text[lo])
    ELSE LET mid == (lo + hi) \div 2
             left == CsvFold(text, lo, mid, st)
         IN  IF left.state \in CsvStates
             THEN CsvFold(text, mid + 1, hi, left)
             ELSE left

\* the rows csv.reader yields for the text
CsvParse(text) ==
    LET st == CsvFold(text, 1, Len(text), CsvStart)
    IN  IF st.state = "start_record" THEN st.rows
        ELSE Append(st.rows, Append(st.row, st.field))

\* with open(path) as f: list(csv.reader(f))
ReadCsv(text) == CsvParse(UniversalNewlines(text))

\* int(str): <<n>>, or <<>> where int raises ValueError
RECURSIVE DigitsValue(_, _)
DigitsValue(str, acc) ==
    IF str = <<>> THEN <<acc>>
    ELSE IF Head(str) \in 48..57 THEN DigitsValue(Tail(str), 10 * acc + (Head(str) - 48))
    ELSE <<>>

StrToInt(str) ==
    IF str = <<>> THEN <<>>
    ELSE IF Head(str) = 45
         THEN IF Tail(str) = <<>> \/ DigitsValue(Tail(str), 0) = <<>> THEN <<>>
              ELSE <<0 - DigitsValue(Tail(str), 0)[1]>>
         ELSE DigitsValue(str, 0)

(* The standings and race names handed to the exporter. *)
RaceNameDash == <<45, 53, 107>>
RaceNameFormula == <<61, 120>>

\* a SeriesTotal of the member with the given id and name, with the given
\* points in the given races
StandingOf(member_id, member_name, races, values) ==
    SeriesTotal(member_id, member_name,
                [i \in 1..Len(races) |-> [race_name |-> races[i]]], values)

ExportEntries ==
    { StandingOf(<<49>>, <<97, 98>>, <<RaceNameA, RaceNameB>>, <<75, 71>>),
      StandingOf(<<43, 49>>, <<61, 97>>, <<RaceNameA>>, <<73>>),
      StandingOf(<<>>, <<97, 34, 98>>, <<RaceNameB>>, <<100>>),
      StandingOf(<<50>>, <<97, 10, 98>>, <<RaceNameDash>>, <<9>>),
      StandingOf(<<51>>, <<97, 44, 98>>, <<RaceNameFormula, RaceNameA>>, <<1, 0>>),
      StandingOf(<<45, 49>>, <<64>>, <<>>, <<>>),
      StandingOf(<<9, 120>>, <<13, 120>>, <<RaceNameA>>, <<15>>),
      StandingOf(<<52>>, <<39, 61, 97>>, <<RaceNameA>>, <<1000>>) }

ExportLists == UNION {[1..n -> ExportEntries] : n \in 0..MaxEntries}

CategoryNames == { <<77>> \o OverallSuffix, <<70, 95>> \o AGE_30_39 }

ExportRaceNames ==
    { <<>>, <<RaceNameA>>, <<RaceNameA, RaceNameB>>, <<RaceNameDash, RaceNameA>>,
      <<RaceNameFormula>> }

\* exporter = ResultsExporter() with the standings and the race names it
\* is about to be handed
InitExport ==
    /\ MatcherIdle
    /\ SimIdle
    /\ pc = "export"
    /\ PointsIdle
    /\ RaceIdle
    /\ all_race_points = <<>>
    /\ race_names = <<>>
    /\ race_index = 0
    /\ max_races = 7
    /\ series_totals = <<>>
    /\ \E c \in CategoryNames, totals \in ExportLists :
           category_standings = [x \in {c} |-> totals]
    /\ returned_names \in ExportRaceNames
    /\ names_shared = FALSE
    /\ ExportIdle
    /\ AgeIdle
    /\ CliIdle

\* exporter.export_category_standings(category_standings, args.output, race_names)
export_category_standings ==
    /\ pc = "export"
    /\ written_rows' = [c \in DOMAIN category_standings |->
                            category_rows(category_standings[c], returned_names)]
    /\ files' = [c \in DOMAIN category_standings |-> CsvText(written_rows'[c])]
    /\ pc' = "exported"
    /\ UNCHANGED <<members, name_corrections, min_confidence, ambiguity_threshold,
                   race_results, matches, simVars, pointsVars, raceVars,
                   seriesVars, parsed_rows, ageVars, cliVars>>

\* with open(output_dir / f"{category}.csv") as f: rows = list(csv.reader(f))
ReadBack ==
    /\ pc = "exported"
    /\ parsed_rows' = [c \in DOMAIN files |-> ReadCsv(files[c])]
    /\ pc' = "read"
    /\ UNCHANGED <<members, name_corrections, min_confidence, ambiguity_threshold,
                   race_results, matches, simVars, pointsVars, raceVars,
                   seriesVars, written_rows, files, ageVars, cliVars>>

NextExport == export_category_standings \/ ReadBack

SpecExport == InitExport /\ [][NextExport]_vars

\* a string field beginning with '=', '+', '-', '@', TAB or CR gets a single
\* quote prepended; any other field is left as it is
Neutralized(cell) ==
    IF /\ cell[1] = "str"
       /\ cell[2] # <<>>
       /\ cell[2][1] \in {61, 43, 45, 64, 9, 13}
    THEN <<"str", <<39>> \o cell[2]>>
    ELSE cell

\* the cells of the header row and of the data rows before sanitization
RawRows(totals, names) ==
    <<(IF names # <<>>
       THEN <<StrCell(RankTitle), StrCell(MemberIdTitle), StrCell(NameTitle)>>
                \o [i \in 1..Len(names) |-> StrCell(names[i])]
                \o <<StrCell(TotalPointsTitle)>>
       ELSE <<StrCell(RankTitle), StrCell(MemberIdTitle), StrCell(NameTitle),
              StrCell(RacesTitle), StrCell(TotalPointsTitle)>>)>>
    \o [k \in 1..Len(totals) |->
           <<IntCell(k), StrCell(totals[k].member_id), StrCell(totals[k].member_name)>>
           \o (IF names # <<>>
               THEN race_columns(totals[k], names)
               ELSE <<IntCell(totals[k].races_completed)>>)
           \o <<IntCell(totals[k].total_points)>>]

\* C18: every cell of the header row and of the data rows of a category
\* standings file is written neutralized: a string beginning with '=', '+',
\* '-', '@', TAB or CR with a single quote prepended, every other string and
\* every non-string unchanged; neutralizing a written data cell again
\* changes nothing.
EveryCellNeutralized ==
    pc \in {"exported", "read"} =>
        \A c \in DOMAIN written_rows :
            LET raw == RawRows(category_standings[c], returned_names)
            IN  /\ Len(written_rows[c]) = Len(raw)
                /\ \A r \in 1..Len(raw) :
                       /\ Len(written_rows[c][r]) = Len(raw[r])
                       /\ \A k \in 1..Len(raw[r]) :
                              /\ written_rows[c][r][k] = Neutralized(raw[r][k])
                              /\ sanitize_csv_field(Neutralized(raw[r][k]))
                                     = Neutralized(raw[r][k])

\* C19: reading a written category file back gives the header row and one
\* data row per entry, in the order of the list; the Rank of row k is k and
\* its Total Points is the total_points of entry k.
ExportRoundTrip ==
    pc = "read" =>
        \A c \in DOMAIN parsed_rows :
            LET totals == category_standings[c]
                rows == parsed_rows[c]
            IN  /\ Len(rows) = Len(totals) + 1
                /\ \A k \in 1..Len(totals) :
                       /\ Len(rows[k + 1]) = Len(rows[1])
                       /\ StrToInt(rows[k + 1][1]) = <<k>>
                       /\ StrToInt(rows[k + 1][Len(rows[k + 1])])
                              = <<totals[k].total_points>>

\* C19 witness: a list of two entries, the first with a line break and the
\* second with a double quote in the member name, was written with race
\* columns and read back.
ExportRoundTripWitness ==
    /\ pc = "read"
    /\ returned_names # <<>>
    /\ \E c \in DOMAIN parsed_rows :
           /\ Len(category_standings[c]) = 2
           /\ category_standings[c][1].member_name = <<97, 10, 98>>
           /\ category_standings[c][2].member_name = <<97, 34, 98>>
           /\ Len(parsed_rows[c]) = 3
           /\ parsed_rows[c][3][3] = <<97, 34, 98>>
           /\ parsed_rows[c][3][Len(parsed_rows[c][3])] = <<49, 48, 48>>

-----------------------------------------------------------------------------
(* Age grading (age_grading.py) and the age-grading loop of cli.main.       *)
(* Times and factors are Python floats in the source; here they are exact   *)
(* fractions <<numerator, denominator>> in lowest terms with a positive     *)
(* denominator.                                                             *)

MaxGraded == 2

RECURSIVE Gcd(_, _)
Gcd(a, b) == IF b = 0 THEN a ELSE Gcd(b, a % b)

Abs(n) == IF n < 0 THEN 0 - n ELSE n

\* the fraction n / d (d # 0) in lowest terms with a positive denominator
Rat(n, d) ==
    LET g == Gcd(Abs(n), Abs(d))
    IN  IF d < 0 THEN <<(0 - n) \div g, (0 - d) \div g>> ELSE <<n \div g, d \div g>>

RatAdd(a, b) == Rat(a[1] * b[2] + b[1] * a[2], a[2] * b[2])
RatMul(a, b) == Rat(a[1] * b[1], a[2] * b[2])
\* a / b for b # 0
RatDiv(a, b) == Rat(a[1] * b[2], a[2] * b[1])

\* class RaceDistance, by value
RaceDistances == {"5K", "8K", "10K", "Half Marathon", "Marathon"}

\* WORLD_CLASS_TIMES, keyed by distance and by the gender strings "M", "F"
WORLD_CLASS_TIMES ==
    [d \in RaceDistances |->
        [g \in {<<77>>, <<70>>} |->
            CASE d = "5K" /\ g = <<77>> -> 12 * 60 + 51
              [] d = "5K" /\ g = <<70>> -> 14 * 60 + 44
              [] d = "8K" /\ g = <<77>> -> 21 * 60 + 15
              [] d = "8K" /\ g = <<70>> -> 24 * 60 + 30
              [] d = "10K" /\ g = <<77>> -> 26 * 60 + 24
              [] d = "10K" /\ g = <<70>> -> 29 * 60 + 43
              [] d = "Half Marathon" /\ g = <<77>> -> 58 * 60 + 1
              [] d = "Half Marathon" /\ g = <<70>> -> 65 * 60 + 15
              [] d = "Marathon" /\ g = <<77>> -> 2 * 3600 + 0 * 60 + 35
              [] d = "Marathon" /\ g = <<70>> -> 2 * 3600 + 11 * 60 + 53]]

\* the ages the factor tables have entries for: 20, 25, ..., 85
FactorAges == [i \in 1..14 |-> 15 + 5 * i]

\* AGE_GRADING_FACTORS in thousandths, each table in the order of FactorAges
AGE_GRADING_FACTORS ==
    [d \in RaceDistances |->
        [g \in {<<77>>, <<70>>} |->
            CASE d = "5K" /\ g = <<77>> ->
                     <<1000, 1000, 1005, 1020, 1048, 1089, 1147,
                       1222, 1318, 1442, 1602, 1810, 2088, 2458>>
              [] d = "5K" /\ g = <<70>> ->
                     <<1000, 1000, 1008, 1027, 1058, 1102, 1163,
                       1244, 1349, 1485, 1661, 1890, 2188, 2576>>
              [] d = "8K" /\ g = <<77>> ->
                     <<1000, 1000, 1006, 1022, 1052, 1096, 1158,
                       1239, 1343, 1477, 1650, 1873, 2164, 2546>>
              [] d = "8K" /\ g = <<70>> ->
                     <<1000, 1000, 1009, 1029, 1062, 1109, 1174,
                       1260, 1372, 1516, 1701, 1940, 2251, 2653>>
              [] d = "10K" /\ g = <<77>> ->
                     <<1000, 1000, 1007, 1024, 1056, 1103, 1169,
                       1256, 1368, 1512, 1698, 1936, 2240, 2634>>
              [] d = "10K" /\ g = <<70>> ->
                     <<1000, 1000, 1010, 1031, 1066, 1116, 1185,
                       1276, 1395, 1547, 1741, 1990, 2314, 2730>>
              [] d = "Half Marathon" /\ g = <<77>> ->
                     <<1000, 1000, 1009, 1028, 1064, 1117, 1191,
                       1289, 1418, 1582, 1792, 2062, 2408, 2850>>
              [] d = "Half Marathon" /\ g = <<70>> ->
                     <<1000, 1000, 1012, 1035, 1074, 1130, 1207,
                       1308, 1441, 1609, 1821, 2090, 2440, 2884>>
              [] d = "Marathon" /\ g = <<77>> ->
                     <<1000, 1000, 1011, 1032, 1072, 1131, 1213,
                       1322, 1468, 1652, 1886, 2188, 2576, 3066>>
              [] d = "Marathon" /\ g = <<70>> ->
                     <<1000, 1000, 1014, 1039, 1082, 1144, 1229,
                       1340, 1487, 1671, 1901, 2190, 2566, 3038>>]]

\* `sub in s` for strings
Contains(s, sub) ==
    \E i \in 1..(Len(s) - Len(sub) + 1) : SubSeq(s, i, i + Len(sub) - 1) = sub

IsDigit(c) == c \in 48..57

\* the bucket of a kilometre count
DistanceOfKm(km) ==
    IF km <= 6 THEN "5K"
    ELSE IF km <= 9 THEN "8K"
    ELSE IF km <= 15 THEN "10K"
    ELSE IF km <= 25 THEN "Half Marathon"
    ELSE "Marathon"

\* infer_race_distance(race_name): <<distance>>, or <<>> for None.
\* re.search(r"(\d+)k", ...) matches at the leftmost digit from which a run
\* of digits reaches a 'k'; the group is that run.
infer_race_distance(race_name) ==
    LET race_name_lower == Lower(race_name)
        n == Len(race_name_lower)
        Run(i, e) == /\ \A j \in i..e : IsDigit(race_name_lower[j])
                     /\ race_name_lower[e + 1] = 107
        starts == {i \in 1..n : \E e \in i..(n - 1) : Run(i, e)}
        first == CHOOSE i \in starts : \A j \in starts : i <= j
        last == CHOOSE e \in first..(n - 1) : Run(first, e)
        km == DigitsValue(SubSeq(race_name_lower, first, last), 0)[1]
    IN  IF \/ Contains(race_name_lower, <<53, 107>>)
           \/ Contains(race_name_lower, <<53, 95, 107>>)
        THEN <<"5K">>
        ELSE IF \/ Contains(race_name_lower, <<56, 107>>)
                \/ Contains(race_name_lower, <<56, 95, 107>>)
        THEN <<"8K">>
        ELSE IF \/ Contains(race_name_lower, <<49, 48, 107>>)
                \/ Contains(race_name_lower, <<49, 48, 95, 107>>)
        THEN <<"10K">>
        ELSE IF \/ Contains(race_name_lower, <<104, 97, 108, 102>>)
                \/ Contains(race_name_lower,
                            <<104, 97, 108, 102, 95, 109, 97, 114, 97, 116, 104, 111, 110>>)
        THEN <<"Half Marathon">>
        ELSE IF /\ Contains(race_name_lower, <<109, 97, 114, 97, 116, 104, 111, 110>>)
                /\ ~Contains(race_name_lower, <<104, 97, 108, 102>>)
        THEN <<"Marathon">>
        ELSE IF starts # {} THEN <<DistanceOfKm(km)>>
        ELSE <<>>

\* get_age_factor(distance, age, gender)
get_age_factor(distance, age, gender) ==
    IF gender \notin DOMAIN AGE_GRADING_FACTORS[distance] THEN Rat(1, 1)
    ELSE LET gender_factors == AGE_GRADING_FACTORS[distance][gender]
             ages == FactorAges
         IN  IF \E i \in 1..Len(ages) : ages[i] = age
             THEN Rat(gender_factors[CHOOSE i \in 1..Len(ages) : ages[i] = age], 1000)
             ELSE IF age < ages[1] THEN Rat(gender_factors[1], 1000)
             ELSE IF age > ages[Len(ages)] THEN Rat(gender_factors[Len(ages)], 1000)
             ELSE LET i == CHOOSE k \in 1..(Len(ages) - 1) :
                               /\ ages[k] <= age /\ age <= ages[k + 1]
                               /\ \A j \in 1..(k - 1) :
                                      ~(ages[j] <= age /\ age <= ages[j + 1])
                      age_ratio == Rat(age - ages[i], ages[i + 1] - ages[i])
                  IN  RatAdd(Rat(gender_factors[i], 1000),
                             RatMul(age_ratio,
                                    Rat(gender_factors[i + 1] - gender_factors[i], 1000)))

\* str.split(":"): the pieces between the colons, empty pieces included
RECURSIVE SplitColonFrom(_, _, _)
SplitColonFrom(s, cur, acc) ==
    IF s = <<>> THEN Append(acc, cur)
    ELSE IF Head(s) = 58 THEN SplitColonFrom(Tail(s), <<>>, Append(acc, cur))
    ELSE SplitColonFrom(Tail(s), Append(cur, Head(s)), acc)

SplitColon(s) == SplitColonFrom(s, <<>>, <<>>)

RECURSIVE Pow10(_)
Pow10(n) == IF n = 0 THEN 1 ELSE 10 * Pow10(n - 1)

\* float(s) for a string of digits, '.', '+', '-', spaces and other
\* characters that make no number (no exponent, "inf", "nan" or '_'): the
\* fraction, or <<>> where float raises ValueError
FloatOf(s) ==
    LET t == Strip(s)
        signed == t # <<>> /\ t[1] \in {43, 45}
        body == IF signed THEN Tail(t) ELSE t
        dots == {i \in 1..Len(body) : body[i] = 46}
        digits == SelectSeq(body, IsDigit)
        decimals == IF dots = {} THEN 0 ELSE Len(body) - (CHOOSE i \in dots : TRUE)
        value == DigitsValue(digits, 0)[1]
    IN  IF /\ \A i \in 1..Len(body) : IsDigit(body[i]) \/ body[i] = 46
           /\ Cardinality(dots) <= 1
           /\ digits # <<>>
        THEN Rat(IF signed /\ t[1] = 45 THEN 0 - value ELSE value, Pow10(decimals))
        ELSE <<>>

\* time_to_seconds(time_str): the seconds, or <<>> where it raises ValueError
time_to_seconds(time_str) ==
    LET parts == SplitColon(time_str)
        values == [i \in 1..Len(parts) |-> FloatOf(parts[i])]
    IN  IF Len(parts) = 2
        THEN IF \E i \in 1..2 : values[i] = <<>> THEN <<>>
             ELSE RatAdd(RatMul(values[1], Rat(60, 1)), values[2])
        ELSE IF Len(parts) = 3
        THEN IF \E i \in 1..3 : values[i] = <<>> THEN <<>>
             ELSE RatAdd(RatAdd(RatMul(values[1], Rat(3600, 1)),
                                RatMul(values[2], Rat(60, 1))),
                         values[3])
        ELSE <<>>

\* `not member.age` negated: the age is neither None nor 0
TruthyInt(opt) == opt # <<>> /\ opt[1] # 0

\* AgeGradedResult(...)
AgeGradedResult(member, race_result, race_name, seconds, distance, factor, percentage) ==
    [member_id |-> member.member_id,
     member_name |-> full_name(member),
     race_name |-> race_name,
     age |-> member.age[1],
     gender |-> member.gender[1],
     actual_time |-> race_result.time,
     actual_seconds |-> seconds,
     distance |-> distance,
     age_factor |-> factor,
     age_graded_percentage |-> percentage,
     overall_place |-> race_result.place]

\* AgeGradingCalculator.calculate_age_graded_result(member, race_result,
\* race_name): <<"result", r>> where it returns the AgeGradedResult r,
\* <<"None">> where it returns None, <<"raises", e>> where the exception e
\* leaves it
calculate_age_graded_result(member, race_result, race_name) ==
    IF ~TruthyInt(member.age) \/ ~Truthy(member.gender) THEN <<"None">>
    ELSE LET distance == infer_race_distance(race_name)
         IN  IF distance = <<>> THEN <<"None">>
             ELSE LET gender == member.gender[1]
                      age_factor == get_age_factor(distance[1], member.age[1], gender)
                      actual_seconds == time_to_seconds(race_result.time)
                      age_standard_time ==
                          RatDiv(Rat(WORLD_CLASS_TIMES[distance[1]][gender], 1), age_factor)
                  IN  IF actual_seconds = <<>> THEN <<"None">>
                      ELSE IF gender \notin DOMAIN WORLD_CLASS_TIMES[distance[1]]
                      THEN <<"result",
                             AgeGradedResult(member, race_result, race_name,
                                             actual_seconds, distance[1], age_factor,
                                             RatMul(RatDiv(Rat(1, 1), age_factor),
                                                    Rat(100, 1)))>>
                      ELSE IF actual_seconds[1] = 0
                      THEN <<"raises", "ZeroDivisionError">>
                      ELSE <<"result",
                             AgeGradedResult(member, race_result, race_name,
                                             actual_seconds, distance[1], age_factor,
                                             RatMul(RatDiv(age_standard_time, actual_seconds),
                                                    Rat(100, 1)))>>

(* The finishers, finish times and race names of the age-grading loop. *)
MemberX == Member(<<57>>, <<120>>, <<121>>, <<35>>, << <<88>> >>)

GradedMembers ==
    {MemberM38, MemberF35, MemberMNoAge, MemberBlankGender, MemberAgeZero, MemberX}

\* "18:30", "1:15:30", "18:30.5", "a:30", "0:00", "18"
FinishTimes ==
    { <<49, 56, 58, 51, 48>>, <<49, 58, 49, 53, 58, 51, 48>>,
      <<49, 56, 58, 51, 48, 46, 53>>, <<97, 58, 51, 48>>,
      <<48, 58, 48, 48>>, <<49, 56>> }

\* the match of the finisher in place p to the member m, with the time t
MatchTimed(m, p, t) == [MatchOf(m, p) EXCEPT !.race_result.time = t]

\* one finisher of a race before the place is known: a member with a finish
\* time, or "x" for a finisher no member was found for
GradedFinishers == (GradedMembers \X FinishTimes) \cup {"x"}

GradedRaces ==
    UNION {[1..n -> GradedFinishers] : n \in 0..MaxGraded}

\* the matches of a race, the finisher listed at position p in place p
MatchesOf(finishers) ==
    [p \in 1..Len(finishers) |->
        IF finishers[p] = "x" THEN Unmatched(p)
        ELSE MatchTimed(finishers[p][1], p, finishers[p][2])]

\* "run"
RaceNameRun == <<114, 117, 110>>

GradedRaceNames == {RaceNameA, RaceNameB, RaceNameRun}

\* cli.main has the matches of one race and begins the age-grading loop
InitAge ==
    /\ MatcherIdle
    /\ SimIdle
    /\ pc = "age"
    /\ PointsIdle
    /\ \E finishers \in GradedRaces : match_results = MatchesOf(finishers)
    /\ race_points = <<>>
    /\ SeriesIdle
    /\ ExportIdle
    /\ ag_race_name \in GradedRaceNames
    /\ ag_index = 0
    /\ age_graded_results = <<>>
    /\ race_distance = <<>>
    /\ CliIdle

\* one pass of `for match in matches:` (cli.py:168-174); an exception that
\* leaves calculate_age_graded_result leaves the loop and cli.main
AgeGradeNext ==
    /\ pc = "age"
    /\ ag_index < Len(match_results)
    /\ LET match == match_results[ag_index + 1]
           ag_result == calculate_age_graded_result(match.member, match.race_result,
                                                    ag_race_name)
       IN  IF match.matched /\ match.member # NoMember
           THEN IF ag_result[1] = "raises"
                THEN /\ pc' = "age_raised"
                     /\ UNCHANGED <<ag_index, age_graded_results>>
                ELSE /\ age_graded_results' =
                            IF ag_result[1] = "result"
                            THEN Append(age_graded_results, ag_result[2])
                            ELSE age_graded_results
                     /\ ag_index' = ag_index + 1
                     /\ pc' = pc
           ELSE /\ ag_index' = ag_index + 1
                /\ UNCHANGED <<pc, age_graded_results>>
    /\ UNCHANGED <<members, name_corrections, min_confidence, ambiguity_threshold,
                   race_results, matches, simVars, pointsVars, raceVars,
                   seriesVars, exportVars, ag_race_name, race_distance, cliVars>>

\* the loop is over: age_graded_series.add_age_graded_results(age_graded_results)
AgeGradeDone ==
    /\ pc = "age"
    /\ ag_index = Len(match_results)
    /\ pc' = "age_done"
    /\ UNCHANGED <<members, name_corrections, min_confidence, ambiguity_threshold,
                   race_results, matches, simVars, auxVars>>

NextAge == AgeGradeNext \/ AgeGradeDone

SpecAge == InitAge /\ [][NextAge]_vars

\* the matched finishers of the race that return None is claimed for
MustBeSkipped(match) ==
    \/ ~TruthyInt(match.member.age)
    \/ ~Truthy(match.member.gender)
    \/ infer_race_distance(ag_race_name) = <<>>
    \/ time_to_seconds(match.race_result.time) = <<>>

\* C20: age grading skips a record and continues: for a matched finisher
\* calculate_age_graded_result returns a result or None and never raises, it
\* returns None when the age or gender is missing, when no distance can be
\* inferred from the race name or when the time cannot be converted, and
\* the loop reaches the last finisher of the race.  Stated on the loop of
\* cli.main: it never ends in an exception, every finisher it has been
\* through had one of the two outcomes, and it ends past the last finisher.
AgeGradingSkipsAndContinues ==
    /\ pc # "age_raised"
    /\ \A p \in 1..ag_index :
           match_results[p].matched =>
               LET match == match_results[p]
                   outcome == calculate_age_graded_result(match.member, match.race_result,
                                                          ag_race_name)
               IN  /\ outcome[1] \in {"result", "None"}
                   /\ MustBeSkipped(match) => outcome = <<"None">>
    /\ pc = "age_done" => ag_index = Len(match_results)

-----------------------------------------------------------------------------
(* MemberRegistry.load_from_csv on the cells of a roster file.              *)
(* A file is <<>> where the path does not exist, else <<f>> with f.header   *)
(* the column names and f.lines the cells of each line after the header.    *)
(* An optional value is <<>> for None and <<v>> for the value v.            *)

\* csv.DictReader: the dict of one line; a column the line has no cell for
\* maps to None, a cell beyond the header is not looked at by the loader
DictRow(fieldnames, line) ==
    [k \in {fieldnames[i] : i \in 1..Len(fieldnames)} |->
        LET i == CHOOSE j \in 1..Len(fieldnames) : fieldnames[j] = k
        IN  IF i <= Len(line) THEN <<line[i]>> ELSE <<>>]

\* row.get(key, default)
Get(row, key, default) == IF key \in DOMAIN row THEN row[key] ELSE default

\* int(s) for a string of digits, '+', '-', spaces and other characters
\* that make no number (no '_'): <<n>>, or <<>> where int raises ValueError
IntOf(s) ==
    LET t == Strip(s)
        signed == t # <<>> /\ t[1] \in {43, 45}
        body == IF signed THEN Tail(t) ELSE t
        value == DigitsValue(body, 0)
    IN  IF body = <<>> \/ value = <<>> THEN <<>>
        ELSE IF signed /\ t[1] = 45 THEN <<0 - value[1]>> ELSE value

\* the Member(...) call of load_from_csv for one row: <<"ok", member>>, or
\* <<"raises", e>>; the arguments are evaluated in the order written
MemberOfRow(row) ==
    LET first_name == Get(row, "first_name", << <<>> >>)
        last_name == Get(row, "last_name", << <<>> >>)
        age == Get(row, "age", <<>>)
    IN  IF first_name = <<>> \/ last_name = <<>>
        THEN <<"raises", "AttributeError">>
        ELSE IF Truthy(age) /\ IntOf(age[1]) = <<>>
        THEN <<"raises", "ValueError">>
        ELSE <<"ok",
               [member_id |-> Get(row, "member_id", << <<>> >>),
                first_name |-> Strip(first_name[1]),
                last_name |-> Strip(last_name[1]),
                email |-> Get(row, "email", <<>>),
                age |-> IF Truthy(age) THEN IntOf(age[1]) ELSE <<>>,
                gender |-> Get(row, "gender", <<>>)]>>

\* the loop `for row in reader:` of load_from_csv from the line at position
\* i on, with the members appended so far: the list it ends with, and the
\* exception that ended it ("" for none)
RECURSIVE LoadRowsFrom(_, _, _)
LoadRowsFrom(f, i, acc) ==
    IF i > Len(f.lines) THEN [members |-> acc, raised |-> ""]
    ELSE LET m == MemberOfRow(DictRow(f.header, f.lines[i]))
         IN  IF m[1] = "raises" THEN [members |-> acc, raised |-> m[2]]
             ELSE LoadRowsFrom(f, i + 1, Append(acc, m[2]))

(* The roster files handed to the loader. *)
RosterHeaders ==
    { <<"member_id", "first_name", "last_name", "email", "age", "gender">>,
      <<"member_id", "first_name", "last_name">> }

\* full lines "1,a,b,<email>,<age>,<gender>" with email "" or "e", age "",
\* "35" or "x", gender "" or "M"
FullLines ==
    { << <<49>>, <<97>>, <<98>>, e, a, g >> :
        e \in { <<>>, <<101>> }, a \in { <<>>, <<51, 53>>, <<120>> },
        g \in { <<>>, <<77>> } }

\* the full lines and the lines cut short after the last name or later
RosterLines == { SubSeq(l, 1, k) : l \in FullLines, k \in 3..6 }

RosterCsvFiles ==
    { <<>> } \cup
    { << [header |-> h, lines |-> ls] >> :
        h \in RosterHeaders, ls \in UNION {[1..n -> RosterLines] : n \in 0..MaxMembers} }

\* a member loaded by an earlier call
EarlierMember ==
    [member_id |-> << <<57>> >>, first_name |-> <<122>>, last_name |-> <<122>>,
     email |-> <<>>, age |-> <<>>, gender |-> <<>>]

\* a registry, empty or holding an earlier load, about to load args.members
InitRoster ==
    /\ members \in { <<>>, <<EarlierMember>> }
    /\ name_corrections = EmptyDict
    /\ min_confidence = <<7, 10>>
    /\ ambiguity_threshold = <<1, 20>>
    /\ race_results = <<>>
    /\ matches = <<>>
    /\ SimIdle
    /\ pc = "roster"
    /\ PointsIdle
    /\ RaceIdle
    /\ SeriesIdle
    /\ ExportIdle
    /\ AgeIdle
    /\ \E f \in RosterCsvFiles : args = [NoArgs EXCEPT !.members = f]
    /\ flagged_matches = <<>>
    /\ outputs = {}

\* member_registry.load_from_csv(args.members): pc becomes "loaded", or the
\* name of the exception that leaves the call
LoadRoster ==
    /\ pc = "roster"
    /\ IF args.members = <<>>
       THEN /\ pc' = "FileNotFoundError"
            /\ UNCHANGED members
       ELSE LET r == LoadRowsFrom(args.members[1], 1, <<>>)
            IN  /\ members' = r.members
                /\ pc' = IF r.raised = "" THEN "loaded" ELSE r.raised
    /\ UNCHANGED <<name_corrections, min_confidence, ambiguity_threshold,
                   race_results, matches, simVars, auxVars>>

NextRoster == LoadRoster

SpecRoster == InitRoster /\ [][NextRoster]_vars

\* the cell of the named column in line i of the roster file, None where
\* the file or the line has no such cell
RosterCell(i, column) ==
    Get(DictRow(args.members[1].header, args.members[1].lines[i]), column, <<>>)

\* C21: loading a roster file that exists never fails and never drops a
\* row; an empty email or gender cell is loaded as the empty string, and
\* the age is None where the age cell is absent, empty or not an integer.
RosterQuirks ==
    (pc # "roster" /\ args.members # <<>>) =>
        /\ pc = "loaded"
        /\ Len(members) = Len(args.members[1].lines)
        /\ \A i \in 1..Len(members) :
               /\ RosterCell(i, "email") = << <<>> >> => members[i].email = << <<>> >>
               /\ RosterCell(i, "gender") = << <<>> >> => members[i].gender = << <<>> >>
               /\ (~Truthy(RosterCell(i, "age")) \/ IntOf(RosterCell(i, "age")[1]) = <<>>)
                      => members[i].age = <<>>

-----------------------------------------------------------------------------
(* cli.main from the loading of the roster to the flagged-match report.     *)
(* In args, a roster file is <<>> where the path does not exist and else    *)
(* <<ms>> with ms the members load_from_csv reads from it; a race file is   *)
(* <<>> where the path does not exist and else <<r>> with r.name its stem   *)
(* and r.matches the list match_all returns for its finishers; the          *)
(* corrections file is <<>> where --name-corrections is not given, else     *)
(* <<f>> with f a file as above; categories is <<>> where --categories is   *)
(* not given, else <<the string>>.  Of the age-graded file and of the       *)
(* flagged-match report the model keeps that they were written.             *)

MaxCliRaces == 2

\* str.split(sep) for a one-character sep: the pieces, empty ones included
RECURSIVE SplitAtFrom(_, _, _, _)
SplitAtFrom(s, sep, cur, acc) ==
    IF s = <<>> THEN Append(acc, cur)
    ELSE IF Head(s) = sep THEN SplitAtFrom(Tail(s), sep, <<>>, Append(acc, cur))
    ELSE SplitAtFrom(Tail(s), sep, Append(cur, Head(s)), acc)

\* the string "age_graded"
AgeGradedName == <<97, 103, 101, 95, 103, 114, 97, 100, 101, 100>>

\* the name the model gives the file of --unmatched-report: "report"
ReportName == <<114, 101, 112, 111, 114, 116>>

\* requested_categories = [c.strip() for c in args.categories.split(",")]
requested_categories(categories) ==
    LET pieces == SplitAtFrom(categories, 44, <<>>, <<>>)
    IN  [i \in 1..Len(pieces) |-> Strip(pieces[i])]

\* include_age_graded as cli.main sets it (cli.py:184-188)
include_age_graded(categories) ==
    IF Truthy(categories)
    THEN \E i \in 1..Len(requested_categories(categories[1])) :
             requested_categories(categories[1])[i] = AgeGradedName
    ELSE TRUE

\* category_standings after the filter of cli.py:185-196
filtered_standings(standings, categories) ==
    IF Truthy(categories)
    THEN LET filtered_categories ==
                 SelectSeq(requested_categories(categories[1]),
                           LAMBDA c : c # AgeGradedName)
         IN  IF filtered_categories # <<>>
             THEN [cat \in {c \in DOMAIN standings :
                               \E i \in 1..Len(filtered_categories) :
                                   filtered_categories[i] = c} |-> standings[cat]]
             ELSE standings
    ELSE standings

\* the flagging of one match listing a match that is ambiguous and of low
\* confidence under both reasons
flagged_of_match_both(race_name, match) ==
    (IF match.matched /\ match.is_ambiguous
     THEN << <<race_name, match.race_result.name, match.confidence,
               <<"ambiguous", full_name(match.member)>> >> >>
     ELSE <<>>)
    \o (IF match.matched /\ RatLt(match.confidence, <<9, 10>>)
        THEN << <<race_name, match.race_result.name, match.confidence,
                  <<"low confidence", full_name(match.member)>> >> >>
        ELSE <<>>)

\* what one pass of the loop of cli.py:140-160 appends to flagged_matches;
\* the reason f"ambiguous (matched: {member_name})" is kept as the pair
\* <<"ambiguous", member_name>>, and likewise for "low confidence"
flagged_of_match(race_name, match) ==
    IF match.matched /\ match.is_ambiguous
    THEN << <<race_name, match.race_result.name, match.confidence,
              <<"ambiguous", full_name(match.member)>> >> >>
    ELSE IF match.matched /\ RatLt(match.confidence, <<9, 10>>)
    THEN << <<race_name, match.race_result.name, match.confidence,
              <<"low confidence", full_name(match.member)>> >> >>
    ELSE <<>>

\* what the loop of cli.py:140-160 appends for the matches from position i on
RECURSIVE flagged_from(_, _, _)
flagged_from(race_name, ms, i) ==
    IF i > Len(ms) THEN <<>>
    ELSE flagged_of_match(race_name, ms[i]) \o flagged_from(race_name, ms, i + 1)

\* the age-grading loop of cli.py:167-174 from the match at position i on,
\* with the results appended so far: the list it ends with, and the
\* exception that ended it ("" for none)
RECURSIVE age_graded_from(_, _, _, _)
age_graded_from(race_name, ms, i, acc) ==
    IF i > Len(ms) THEN [results |-> acc, raised |-> ""]
    ELSE IF ms[i].matched /\ ms[i].member # NoMember
    THEN LET ag_result == calculate_age_graded_result(ms[i].member, ms[i].race_result,
                                                      race_name)
         IN  IF ag_result[1] = "raises"
             THEN [results |-> acc, raised |-> ag_result[2]]
             ELSE age_graded_from(race_name, ms, i + 1,
                                  IF ag_result[1] = "result"
                                  THEN Append(acc, ag_result[2]) ELSE acc)
    ELSE age_graded_from(race_name, ms, i + 1, acc)

(* The arguments cli.main is run with. *)

\* the match of the finisher in place p to the member m with the given
\* confidence and ambiguity flag
MatchFlagged(m, p, confidence, is_ambiguous) ==
    [MatchOf(m, p) EXCEPT !.confidence = confidence, !.is_ambiguous = is_ambiguous]

CliRaceFiles ==
    { <<>>,
      << [name |-> RaceNameA,
          matches |-> <<MatchOf(MemberM38, 1),
                        MatchFlagged(MemberF35, 2, <<17, 20>>, FALSE),
                        Unmatched(3)>>] >>,
      << [name |-> RaceNameB,
          matches |-> <<MatchFlagged(MemberM35, 1, <<19, 20>>, TRUE),
                        MatchFlagged(MemberM38, 2, <<17, 20>>, TRUE),
                        MatchFlagged(MemberF35, 3, <<9, 10>>, FALSE)>>] >>,
      << [name |-> RaceNameA,
          matches |-> <<MatchTimed(MemberF35, 1, <<48, 58, 48, 48>>)>>] >>,
      << [name |-> RaceNameRun, matches |-> <<>>] >> }

\* nargs="+": at least one race file
CliRaces == UNION {[1..n -> CliRaceFiles] : n \in 1..MaxCliRaces}

\* not given, "", "M_overall", "M_overall, age_graded", "age_graded",
\* "F_30-39,M_50-59"
CliCategories ==
    { <<>>, << <<>> >>, << <<77>> \o OverallSuffix >>,
      << <<77>> \o OverallSuffix \o <<44, 32>> \o AgeGradedName >>,
      << AgeGradedName >>,
      << <<70, 95>> \o AGE_30_39 \o <<44, 77, 95>> \o AGE_50_59 >> }

\* not given, given and missing, given with one correction
CliCorrections == { <<>>, << <<>> >>, << << <<CorrAB>> >> >> }

CliArgs ==
    [members : { <<>>, <<SeriesRegistry>> },
     races : CliRaces,
     categories : CliCategories,
     unmatched_report : BOOLEAN,
     name_corrections : CliCorrections]

\* cli.main after parser.parse_args(), the components not yet made
InitCli ==
    /\ MatcherIdle
    /\ SimIdle
    /\ pc = "cli_start"
    /\ PointsIdle
    /\ RaceIdle
    /\ SeriesIdle
    /\ ExportIdle
    /\ AgeIdle
    /\ args \in CliArgs
    /\ flagged_matches = <<>>
    /\ outputs = {}

\* member_registry.load_from_csv(args.members) (cli.py:88-89)
CliLoadMembers ==
    /\ pc = "cli_start"
    /\ IF args.members = <<>>
       THEN /\ pc' = "FileNotFoundError"
            /\ UNCHANGED members
       ELSE /\ members' = args.members[1]
            /\ pc' = "cli_corrections"
    /\ UNCHANGED <<name_corrections, min_confidence, ambiguity_threshold,
                   race_results, matches, simVars, auxVars>>

\* the loading of the name corrections (cli.py:93-99): a corrections file
\* that does not exist is reported and the run goes on
CliLoadCorrections ==
    /\ pc = "cli_corrections"
    /\ name_corrections' =
           IF args.name_corrections # <<>> /\ args.name_corrections[1] # <<>>
           THEN LoadedCorrections(args.name_corrections[1][1], EmptyDict)
           ELSE name_corrections
    /\ pc' = "races"
    /\ UNCHANGED <<members, min_confidence, ambiguity_threshold,
                   race_results, matches, simVars, auxVars>>

\* what one pass of the race loop leaves behind for the race file `race`,
\* given the race points rps of its matches and the outcome `graded` of its
\* age-grading loop (cli.py:125-177)
RaceProcessed(race, rps, graded) ==
    /\ match_results' = race.matches
    /\ flagged_matches' = flagged_matches \o flagged_from(race.name, race.matches, 1)
    /\ race_points' = rps
    /\ all_race_points' = all_race_points \o rps
    /\ race_names' = race_names_after(race_names, rps)
    /\ ag_race_name' = race.name
    /\ ag_index' = Len(graded.results)
    /\ age_graded_results' = graded.results
    /\ IF graded.raised # ""
       THEN pc' = graded.raised /\ UNCHANGED race_index
       ELSE pc' = pc /\ race_index' = race_index + 1

\* one pass of `for race_path in args.races:` (cli.py:119-177)
CliProcessRace ==
    /\ pc = "races"
    /\ race_index < Len(args.races)
    /\ IF args.races[race_index + 1] = <<>>
       THEN /\ pc' = "FileNotFoundError"
            /\ UNCHANGED <<raceVars, all_race_points, race_names, race_index,
                           age_graded_results, ag_race_name, ag_index, flagged_matches>>
       ELSE RaceProcessed(args.races[race_index + 1][1],
                          calculate_race_points(race_type,
                              args.races[race_index + 1][1].matches,
                              args.races[race_index + 1][1].name),
                          age_graded_from(args.races[race_index + 1][1].name,
                              args.races[race_index + 1][1].matches, 1, <<>>))
    /\ UNCHANGED <<members, name_corrections, min_confidence, ambiguity_threshold,
                   race_results, matches, simVars, pointsVars, max_races, series_totals,
                   category_standings, returned_names, names_shared, exportVars,
                   race_distance, args, outputs>>

\* the category standings are calculated, filtered and exported
\* (cli.py:181-207)
CliExportCategories ==
    /\ pc = "races"
    /\ race_index = Len(args.races)
    /\ LET standings ==
               filtered_standings(
                   calculate_category_standings(members, all_race_points, max_races),
                   args.categories)
       IN  /\ category_standings' = standings
           /\ returned_names' = race_names
           /\ written_rows' = [c \in DOMAIN standings |->
                                   category_rows(standings[c], race_names)]
           /\ files' = [c \in DOMAIN standings |-> CsvText(written_rows'[c])]
           /\ outputs' = outputs \cup DOMAIN standings
    /\ pc' = "exported"
    /\ UNCHANGED <<members, name_corrections, min_confidence, ambiguity_threshold,
                   race_results, matches, simVars, pointsVars, raceVars,
                   all_race_points, race_names, race_index, max_races, series_totals,
                   names_shared, parsed_rows, ageVars, args, flagged_matches>>

\* the age-graded standings are exported if asked for (cli.py:210-231)
CliExportAgeGraded ==
    /\ pc = "exported"
    /\ outputs' = IF include_age_graded(args.categories)
                  THEN outputs \cup {AgeGradedName} ELSE outputs
    /\ pc' = "graded"
    /\ UNCHANGED <<members, name_corrections, min_confidence, ambiguity_threshold,
                   race_results, matches, simVars, pointsVars, raceVars, seriesVars,
                   exportVars, ageVars, args, flagged_matches>>

\* the flagged-match report is written if asked for and not empty
\* (cli.py:247-262)
CliReport ==
    /\ pc = "graded"
    /\ outputs' = IF args.unmatched_report /\ flagged_matches # <<>>
                  THEN outputs \cup {ReportName} ELSE outputs
    /\ pc' = "done"
    /\ UNCHANGED <<members, name_corrections, min_confidence, ambiguity_threshold,
                   race_results, matches, simVars, pointsVars, raceVars, seriesVars,
                   exportVars, ageVars, args, flagged_matches>>

NextCli ==
    \/ CliLoadMembers
    \/ CliLoadCorrections
    \/ CliProcessRace
    \/ CliExportCategories
    \/ CliExportAgeGraded
    \/ CliReport

SpecCli == InitCli /\ [][NextCli]_vars

(* Claims on the run of cli.main. *)

\* the number of race files whose matches have been gone through for the
\* flagged list: those processed, and the one the age grading aborted in
FlaggedRaces == IF pc = "ZeroDivisionError" THEN race_index + 1 ELSE race_index

\* the match of the finisher at position i of race file r
CliMatch(r, i) == args.races[r][1].matches[i]

\* the positions <<race, finisher>> of the matches to be flagged
ToFlag ==
    {p \in (1..FlaggedRaces) \X (1..MaxFinishers) :
        /\ p[2] <= Len(args.races[p[1]][1].matches)
        /\ CliMatch(p[1], p[2]).matched
        /\ \/ CliMatch(p[1], p[2]).is_ambiguous
           \/ RatLt(CliMatch(p[1], p[2]).confidence, <<9, 10>>)}

\* the number of positions to be flagged that come before p, race first
FlagsBefore(p) ==
    Cardinality({q \in ToFlag : q[1] < p[1] \/ (q[1] = p[1] /\ q[2] < p[2])})

\* C24: the flagged-match list holds exactly one entry for each accepted
\* match that is ambiguous or of confidence below 0.90, in the order of the
\* races and, inside a race, of the finishers, none for any other match; an
\* ambiguous match is listed with the ambiguous reason whatever its
\* confidence
FlaggedExactlyOnce ==
    pc \in {"races", "exported", "graded", "done", "FileNotFoundError",
            "ZeroDivisionError"}
    => /\ Len(flagged_matches) = Cardinality(ToFlag)
       /\ \A p \in ToFlag :
              LET entry == flagged_matches[FlagsBefore(p) + 1]
                  match == CliMatch(p[1], p[2])
              IN  /\ entry[1] = args.races[p[1]][1].name
                  /\ entry[2] = match.race_result.name
                  /\ entry[3] = match.confidence
                  /\ entry[4][1] = IF match.is_ambiguous THEN "ambiguous"
                                   ELSE "low confidence"

\* two races are processed; the second holds a match that is ambiguous and
\* of low confidence, one that is ambiguous only and one of confidence 0.90
FlaggedExactlyOnceWitness ==
    /\ pc = "done"
    /\ race_index = 2
    /\ Len(flagged_matches) = 3
    /\ flagged_matches[1][4][1] = "low confidence"
    /\ flagged_matches[3][4][1] = "ambiguous"
    /\ RatLt(flagged_matches[3][3], <<9, 10>>)
    /\ \E i \in 1..3 : CliMatch(2, i).confidence = <<9, 10>> /\ CliMatch(2, i).matched

\* the names the --categories list holds, each piece stripped
NamedCategories ==
    {Strip(piece) : piece \in {SplitAtFrom(args.categories[1], 44, <<>>, <<>>)[i] :
                        i \in 1..Len(SplitAtFrom(args.categories[1], 44, <<>>, <<>>))}}

\* the categories that have standings at the end of the run
AllCategories == DOMAIN calculate_category_standings(members, all_race_points, 7)

\* C23: at the end of a run with --categories, the file of a category that
\* has standings is written exactly when the list names the category, and
\* the age-graded file exactly when the list names age_graded; at the end of
\* a run without --categories every category file and the age-graded file
\* are written
CategoriesNamedOnly ==
    pc = "done"
    => IF args.categories # <<>>
       THEN /\ \A c \in AllCategories : c \in outputs <=> c \in NamedCategories
            /\ AgeGradedName \in outputs <=> AgeGradedName \in NamedCategories
       ELSE AllCategories \cup {AgeGradedName} \subseteq outputs

(* Failed loads: the run of cli.main next to direct calls of the two       *)
(* loaders on a registry that may hold an earlier load.                    *)

\* a registry holding an earlier load of corrections or none, about to load
\* the corrections file args.name_corrections[1]
InitCorrectionsCall ==
    /\ members \in { <<>>, <<EarlierMember>> }
    /\ name_corrections \in {EmptyDict, LoadedCorrections(<<CorrAb>>, EmptyDict)}
    /\ min_confidence = <<7, 10>>
    /\ ambiguity_threshold = <<1, 20>>
    /\ race_results = <<>>
    /\ matches = <<>>
    /\ SimIdle
    /\ pc = "corrections_call"
    /\ PointsIdle
    /\ RaceIdle
    /\ SeriesIdle
    /\ ExportIdle
    /\ AgeIdle
    /\ \E f \in { <<>> } \cup { <<rows>> : rows \in CorrectionFiles } :
           args = [NoArgs EXCEPT !.name_corrections = <<f>>]
    /\ flagged_matches = <<>>
    /\ outputs = {}

\* member_registry.load_name_corrections(filepath) (members.py:45-70)
LoadCorrectionsCall ==
    /\ pc = "corrections_call"
    /\ IF args.name_corrections[1] = <<>>
       THEN /\ pc' = "FileNotFoundError"
            /\ UNCHANGED name_corrections
       ELSE /\ name_corrections' = LoadedCorrections(args.name_corrections[1][1], EmptyDict)
            /\ pc' = "loaded"
    /\ UNCHANGED <<members, min_confidence, ambiguity_threshold,
                   race_results, matches, simVars, auxVars>>

InitAbort == InitCli \/ InitRoster \/ InitCorrectionsCall

NextAbort ==
    \/ NextCli
    \/ LoadRoster
    \/ LoadCorrectionsCall

SpecAbort == InitAbort /\ [][NextAbort]_vars

\* a missing roster or race file ends the run of cli.main with
\* FileNotFoundError, nothing having been written, and a loader called on a
\* missing file leaves the registry as it was
MissingFileStopsRun ==
    /\ [](pc = "FileNotFoundError" => (outputs = {} /\ ExportIdle))
    /\ [][(pc = "cli_start" /\ args.members = <<>>) => pc' = "FileNotFoundError"]_vars
    /\ [][(pc = "races" /\ race_index < Len(args.races)
              /\ args.races[race_index + 1] = <<>>) => pc' = "FileNotFoundError"]_vars
    /\ [][pc # "FileNotFoundError"]_vars
    /\ [][(pc' = "FileNotFoundError")
              => (members' = members /\ name_corrections' = name_corrections)]_vars

\* C22: a missing roster or race file ends the run of cli.main with
\* FileNotFoundError, no category file, age-graded file or report having
\* been written, however many races were processed before; and a call of
\* load_from_csv or load_name_corrections that fails leaves the members and
\* the corrections of the registry as they were before the call
FailedLoadLeavesRegistry ==
    /\ MissingFileStopsRun
    /\ [][(pc \in {"roster", "corrections_call"} /\ pc' # "loaded")
              => (members' = members /\ name_corrections' = name_corrections)]_vars

-----------------------------------------------------------------------------
(* The order the race points are added in. *)

\* the longest list of race points all orders of which are compared
MaxPermuted == 4

\* the list rps in the order p, a permutation of its positions
Reordered(rps, p) == [i \in 1..Len(rps) |-> rps[p[i]]]

\* the orders of the race points compared with the order they were added
\* in: every order of a list of at most MaxPermuted race points; of a longer
\* list the reverse order and every exchange of two neighbours
Reorderings(rps) ==
    IF Len(rps) <= MaxPermuted
    THEN {Reordered(rps, p) : p \in Permutations(1..Len(rps))}
    ELSE {[i \in 1..Len(rps) |-> rps[Len(rps) + 1 - i]]}
         \cup {[i \in 1..Len(rps) |->
                   rps[IF i = k THEN k + 1 ELSE IF i = k + 1 THEN k ELSE i]] :
                   k \in 1..(Len(rps) - 1)}

\* what a list of series totals says of each member
MemberStandings(totals) ==
    {<<totals[i].member_id, totals[i].total_points, totals[i].races_completed>> :
        i \in 1..Len(totals)}

-----------------------------------------------------------------------------
(* The choice among members of the same score. *)

\* the score of the member at position i of the registry against the name
\* of the finisher at position k of the race
MemberScore(i, k) ==
    NormalizedScore(NameNormalized(race_results[k].name), full_name(members[i]))

\* C26: a finisher matched by score, not by a correction, is matched to the
\* first member in registry order among those of the highest score, whether
\* that score is 1.0 or below
TieBreakFirstInRegistry ==
    \A k \in 1..Len(matches) :
        (/\ matches[k].matched
         /\ CorrectedMember(members, name_corrections,
                            NameNormalized(race_results[k].name)) = NoMember)
        => \E i \in 1..Len(members) :
               /\ matches[k].member = members[i]
               /\ \A j \in 1..Len(members) : RatLe(MemberScore(j, k), MemberScore(i, k))
               /\ \A j \in 1..(i - 1) : RatLt(MemberScore(j, k), MemberScore(i, k))

\* one finisher is matched with two members scoring 1.0, another with two
\* members sharing the best score below 1.0; both go to the first member
TieBreakFirstInRegistryWitness ==
    /\ Len(members) = 2
    /\ \E k \in 1..Len(matches) :
           /\ RatEq(MemberScore(1, k), One) /\ RatEq(MemberScore(2, k), One)
           /\ matches[k].matched /\ matches[k].member = members[1]
    /\ \E k \in 1..Len(matches) :
           /\ RatEq(MemberScore(1, k), MemberScore(2, k)) /\ RatLt(MemberScore(1, k), One)
           /\ matches[k].matched /\ matches[k].member = members[1]
           /\ matches[k].confidence = MemberScore(1, k)

-----------------------------------------------------------------------------
(* infer_race_distance on race names. *)

\* the largest kilometre count of a race name
MaxKm == 30

\* "", "run_"
NamePrefixes == { <<>>, <<114, 117, 110, 95>> }

\* the name prefix + "<km>k"
KmName(prefix, km) == prefix \o Digits(km) \o <<107>>

\* "", "run", "k", "fun_run", "5_k", "half", "marathon", "half_marathon",
\* "HALF"
OtherNames ==
    { <<>>, RaceNameRun, <<107>>, <<102, 117, 110, 95, 114, 117, 110>>,
      <<53, 95, 107>>, <<104, 97, 108, 102>>,
      <<109, 97, 114, 97, 116, 104, 111, 110>>,
      <<104, 97, 108, 102, 95, 109, 97, 114, 97, 116, 104, 111, 110>>,
      <<72, 65, 76, 70>> }

DistanceNames ==
    {KmName(prefix, km) : prefix \in NamePrefixes, km \in 0..MaxKm} \cup OtherNames

\* a race name about to be looked at
InitDistance ==
    /\ MatcherIdle
    /\ SimIdle
    /\ pc = "distance"
    /\ PointsIdle
    /\ RaceIdle
    /\ SeriesIdle
    /\ ExportIdle
    /\ ag_race_name \in DistanceNames
    /\ ag_index = 0
    /\ age_graded_results = <<>>
    /\ race_distance = <<>>
    /\ CliIdle

\* race_distance = infer_race_distance(race_name)
InferDistance ==
    /\ pc = "distance"
    /\ race_distance' = infer_race_distance(ag_race_name)
    /\ pc' = "inferred"
    /\ UNCHANGED <<members, name_corrections, min_confidence, ambiguity_threshold,
                   race_results, matches, simVars, pointsVars, raceVars, seriesVars,
                   exportVars, ag_race_name, ag_index, age_graded_results, cliVars>>

NextDistance == InferDistance

SpecDistance == InitDistance /\ [][NextDistance]_vars

\* C27: the distance inferred from a name holding the pattern "<N>k" and
\* neither "half" nor "marathon" is the bucket of N: 5K up to 6, 8K from 7
\* to 9, 10K from 10 to 15, Half Marathon from 16 to 25, Marathon above; a
\* name with no keyword and no such pattern has no distance
KilometreBuckets ==
    pc = "inferred" =>
        /\ \A prefix \in NamePrefixes, km \in 0..MaxKm :
               ag_race_name = KmName(prefix, km)
               => race_distance =
                      << IF km <= 6 THEN "5K"
                         ELSE IF km <= 9 THEN "8K"
                         ELSE IF km <= 15 THEN "10K"
                         ELSE IF km <= 25 THEN "Half Marathon"
                         ELSE "Marathon" >>
        /\ ag_race_name \in { <<>>, RaceNameRun, <<107>>,
                              <<102, 117, 110, 95, 114, 117, 110>> }
               => race_distance = <<>>

-----------------------------------------------------------------------------
(* The overall points of the places below 1. *)

\* C28: for every place, 0 and the negative ones included, the overall
\* points lie between 1 and the ceiling of the race type, 75 or 100
OverallPointsWithinTier ==
    (pc = "points" /\ overall_points # <<>>) =>
        /\ overall_points[1] >= 1
        /\ race_type = RACE_75 => overall_points[1] <= 75
        /\ race_type = RACE_100 => overall_points[1] <= 100

-----------------------------------------------------------------------------
(* The standings before and after a race is added. *)

\* every member of the list before has an entry in the list after with at
\* least as many points and races, and no entry after counts more than K
\* races
NotLowered(before, after, K) ==
    /\ \A i \in 1..Len(before) :
           \E j \in 1..Len(after) :
               /\ after[j].member_id = before[i].member_id
               /\ after[j].total_points >= before[i].total_points
               /\ after[j].races_completed >= before[i].races_completed
    /\ \A j \in 1..Len(after) : after[j].races_completed <= K

\* C29: adding a race never lowers a standing: for every max_races, the
\* total_points and races_completed of every member in the series totals
\* and in every category standing are after add_race_points at least what
\* they were before, and races_completed never exceeds max_races
AddingNeverLowers ==
    [][(race_index' = race_index + 1) =>
          \A K \in MaxRacesOptions :
              /\ NotLowered(calculate_series_totals(members, all_race_points, K),
                            calculate_series_totals(members, all_race_points', K), K)
              /\ LET before == calculate_category_standings(members, all_race_points, K)
                     after == calculate_category_standings(members, all_race_points', K)
                 IN  /\ DOMAIN before \subseteq DOMAIN after
                     /\ \A c \in DOMAIN before : NotLowered(before[c], after[c], K)]_vars

\* a member's second race earned more than the first, and with one race
\* counting the total is that of the second race
AddingNeverLowersWitness ==
    /\ pc = "totals"
    /\ max_races = 1
    /\ \E i, j \in 1..Len(all_race_points) :
           /\ i < j
           /\ all_race_points[i].member_id = all_race_points[j].member_id
           /\ total_points(all_race_points[i]) < total_points(all_race_points[j])
           /\ \E t \in 1..Len(series_totals) :
                  /\ series_totals[t].member_id = all_race_points[j].member_id
                  /\ series_totals[t].races_completed = 1
                  /\ series_totals[t].total_points >= total_points(all_race_points[j])

-----------------------------------------------------------------------------
(* The race points of one race, finisher by finisher. *)

\* the positions in match_results of the finishers that are matched and
\* have a member, in input order
ScoredPositions ==
    SelectSeq([i \in 1..Len(match_results) |-> i],
              LAMBDA i : match_results[i].matched /\ match_results[i].member # NoMember)

\* the positions in race_points of the finishers ranked with the finisher at
\* position i for want of an age group or of a gender
MissingSubgroup(i) ==
    {j \in 1..Len(race_points) :
        /\ race_points[j].age_group = race_points[i].age_group
        /\ race_points[j].gender = race_points[i].gender}

\* C30: calculate_race_points returns one RacePoints for each match that is
\* matched and has a member, in input order, and none for the others; each
\* has an age_group_place and age_group_points of at least 1; the finishers
\* without age or without gender are ranked among those that lack the same
\* value, and their age-group points are part of the totals of
\* calculate_series_totals
OnePointsPerMatched ==
    pc = "raced" =>
        /\ Len(race_points) = Len(ScoredPositions)
        /\ \A k \in 1..Len(race_points) :
               LET match == match_results[ScoredPositions[k]]
               IN  /\ race_points[k].member_id = match.member.member_id
                   /\ race_points[k].overall_place = match.race_result.place
                   /\ race_points[k].age_group_place # <<>>
                   /\ race_points[k].age_group_place[1] >= 1
                   /\ race_points[k].age_group_points >= 1
                   /\ (match.member.age = <<>> \/ match.member.gender = <<>>)
                      => {race_points[j].age_group_place[1] : j \in MissingSubgroup(k)}
                             = 1..Cardinality(MissingSubgroup(k))
        /\ LET totals == calculate_series_totals(members, race_points, 7)
           IN  \A t \in 1..Len(totals) :
                   totals[t].total_points =
                       Sum([k \in 1..Len(points_list_of(race_points, totals[t].member_id)) |->
                               points_list_of(race_points, totals[t].member_id)[k].overall_points
                               + points_list_of(race_points, totals[t].member_id)[k].age_group_points])

\* a race of a finisher without age, a match without member and a second
\* finisher without age: two race points, ranked first and second of the
\* subgroup without age in the order of their places
OnePointsPerMatchedWitness ==
    /\ pc = "raced"
    /\ Len(match_results) = 3
    /\ Len(race_points) = 2
    /\ match_results[2].matched /\ match_results[2].member = NoMember
    /\ race_points[1].age_group = NoAgeGroup /\ race_points[2].age_group = NoAgeGroup
    /\ race_points[1].overall_place = 2 /\ race_points[2].overall_place = 1
    /\ race_points[1].age_group_place = <<2>> /\ race_points[2].age_group_place = <<1>>
    /\ race_points[1].age_group_points >= 1

====
